---- MODULE Spec2Model ----
(***************************************************************************)
(* Nurikabe engine of nrkb (nrkb_logic.py) and the part of its controller  *)
(* (nrkb.py) that consumes the solver's change events.                     *)
(*                                                                         *)
(* Cells are numbered 1..rows*cols in row-major order: the cell at (x, y)  *)
(* is y*cols + x + 1.  A reference to a cell is its number; None is 0.     *)
(* The solver's mutable state is threaded through the operators as one     *)
(* record H ("heap") with the fields                                       *)
(*   st        Space.state of every cell                                   *)
(*   owner     Space.owner (0 = None)                                      *)
(*   owns      Space.owns, a list with repetitions                         *)
(*   reachers  Space.reachers (NoneList = None)                            *)
(*   group     Space.group, the cached Group (NoGroup = None); a Group     *)
(*             object is identified by its id                              *)
(*   tag       Space.tag                                                   *)
(*   gc        grouped_count, which numbers the Group objects              *)
(*   q         the work queue of solve                                     *)
(*   ev        the changes put on controller.queue, oldest first           *)
(***************************************************************************)
EXTENDS Integers, Sequences, FiniteSets, TLC

\* ---------------------------------------------------------------- bounds
MaxRows == 3
MaxCols == 3
MaxSeeds == 2
MaxSeedValue == 4
MaxFill == 6

\* ------------------------------------------------------- program constants
BLANK == 0
ISLAND == -1
WATER == -2
INFER == -3

NoneList == <<0, 0>>
NoGroup == [id |-> 0, inferred |-> FALSE, type |-> "NONE", spaces |-> <<>>,
            dofs |-> <<>>, walls |-> <<>>, numbers |-> <<>>]

\* ------------------------------------------------------------ list helpers
InSeq(e, s) == \E i \in 1..Len(s) : s[i] = e
SeqSet(s) == {s[i] : i \in 1..Len(s)}
\* queue.put: append unless present
Put(s, e) == IF InSeq(e, s) THEN s ELSE Append(s, e)
\* the members of a set of cells as a list in cell order
RECURSIVE SortedSeq(_)
SortedSeq(S) ==
  IF S = {} THEN <<>>
  ELSE <<CHOOSE x \in S : \A y \in S : x <= y>>
         \o SortedSeq(S \ {CHOOSE x \in S : \A y \in S : x <= y})
RECURSIVE SumSeq(_)
SumSeq(s) == IF s = <<>> THEN 0 ELSE Head(s) + SumSeq(Tail(s))
Abs(n) == IF n < 0 THEN -n ELSE n
Max(a, b) == IF a >= b THEN a ELSE b
\* a function as its table: TLC applies a function constructor on demand, and
\* a table is made of it when it is compared
Table(f) == IF f = f THEN f ELSE f
\* the head of a loop over 1..n with the result a so far: the loop is over
\* when i has passed n, and a is a value by then
Past(a, i, n) == a = a /\ i > n

\* ------------------------------------------------------------- the grid
Dims == (1..MaxRows) \X (1..MaxCols)
CellX(nc, c) == (c - 1) % nc
CellY(nc, c) == (c - 1) \div nc
CellAt(nc, x, y) == y * nc + x + 1
\* Space.set_neighbors: left, below, right, above
NeighborsOf(nr, nc, c) ==
  LET x == CellX(nc, c)
      y == CellY(nc, c)
  IN (IF x > 0 THEN <<CellAt(nc, x - 1, y)>> ELSE <<>>)
     \o (IF y < nr - 1 THEN <<CellAt(nc, x, y + 1)>> ELSE <<>>)
     \o (IF x < nc - 1 THEN <<CellAt(nc, x + 1, y)>> ELSE <<>>)
     \o (IF y > 0 THEN <<CellAt(nc, x, y - 1)>> ELSE <<>>)
\* the grids of the model: those of Dims, and the 4x4 and the 5x5 grid of
\* the worked examples
Sizes == Dims \cup {<<3, 4>>, <<4, 4>>, <<5, 5>>, <<7, 7>>}
NeighborTable ==
  [d \in Sizes |-> [c \in 1..(d[1] * d[2]) |-> NeighborsOf(d[1], d[2], c)]]

VARIABLES
  rows, cols,     \* Grid.rows, Grid.cols
  seeds,          \* Grid.seeds: the cells that held a number at construction
  target,         \* Grid.target
  solving,        \* Grid.solving
  cell_state,     \* Space.state of every cell
  owner, owns, reachers, group, tag,   \* the other fields of every Space
  grouped_count,  \* the global that counts the Groups made
  q,              \* the work queue of solve
  board,          \* Game.board of the controller, as drawn
  queue,          \* controller.queue: the changes not yet drawn
  ctl_status,     \* controller.status
  pc,             \* where the solver thread stands in solve
  guess_queue, gi, changed_count,   \* the depth-one sweep
  save, other, by_poe,              \* the locals of guess_single
  final_queue, index, stack,        \* guess_recur: its queue, index and frames
  ret, pret,      \* where process_all and process return to
  changed,        \* the local of process_all
  snap,           \* the grid as it was when process_all returned
  waiting,        \* the solver threads that are started and have yet to run
  answer          \* the last call of Game.getState or Game.setState

vars == <<rows, cols, seeds, target, solving, cell_state, owner, owns, reachers,
          group, tag, grouped_count, q, board, queue, ctl_status, pc,
          guess_queue, gi, changed_count, save, other, by_poe, final_queue,
          index, stack, ret, pret, changed, snap, waiting, answer>>

neighbors(c) == NeighborTable[<<rows, cols>>][c]
Cells == 1..(rows * cols)
distance(a, b) ==
  Abs(CellX(cols, a) - CellX(cols, b)) + Abs(CellY(cols, a) - CellY(cols, b))
is_seed(st, c) == st[c] > 0
is_island(st, c) == st[c] > 0 \/ st[c] = ISLAND

\* an is_puddle that finds no block
never_puddle(st, x, y) == FALSE
\* Grid.is_puddle: (x, y) is the upper left corner of a 2x2 block of water
is_puddle(st, x, y) ==
  IF x < 0 \/ x >= cols - 1 \/ y < 0 \/ y >= rows - 1 THEN FALSE
  ELSE /\ st[CellAt(cols, x, y)] = WATER
       /\ st[CellAt(cols, x + 1, y)] = WATER
       /\ st[CellAt(cols, x, y + 1)] = WATER
       /\ st[CellAt(cols, x + 1, y + 1)] = WATER

\* a set_owner that does not enter the cell in the list of its owner
set_owner_unlisted(H, c, o) ==
  [H EXCEPT !.owner[c] = o, !.reachers[c] = NoneList]
\* Space.set_owner
set_owner(H, c, o) ==
  [H EXCEPT !.owner[c] = o, !.reachers[c] = NoneList, !.owns[o] = Append(@, c)]

\* ------------------------------------------------------- Space.find_group
\* the crawl of a water group: one pass over the neighbours ns[i..] of a
\* dequeued space; a = [tag, spaces, dofs, walls, numbers, cq]
RECURSIVE WaterNeighbors(_, _, _, _)
WaterNeighbors(st, ns, i, a) ==
  IF Past(a, i, Len(ns)) THEN a
  ELSE LET n == ns[i]
       IN IF a.tag[n] THEN WaterNeighbors(st, ns, i + 1, a)
          ELSE LET t == [a EXCEPT !.tag[n] = TRUE]
               IN WaterNeighbors(st, ns, i + 1,
                    IF st[n] = WATER
                      THEN [t EXCEPT !.spaces = Append(@, n), !.cq = Put(@, n)]
                    ELSE IF st[n] = BLANK
                      THEN [t EXCEPT !.dofs = Append(@, n)]
                    ELSE [t EXCEPT !.walls = Append(@, n)])
\* a crawl that looks at the neighbours of the start cell only
WaterCrawlOnce(st, a) ==
  IF a.cq = <<>> THEN a
  ELSE WaterNeighbors(st, neighbors(Head(a.cq)), 1, [a EXCEPT !.cq = Tail(@)])
RECURSIVE WaterCrawl(_, _)
WaterCrawl(st, a) ==
  IF a.cq = <<>> THEN a
  ELSE WaterCrawl(st, WaterNeighbors(st, neighbors(Head(a.cq)), 1,
                                     [a EXCEPT !.cq = Tail(@)]))

\* the crawl of an island group
RECURSIVE IslandNeighbors(_, _, _, _, _)
IslandNeighbors(st, infer, ns, i, a) ==
  IF Past(a, i, Len(ns)) THEN a
  ELSE LET n == ns[i]
       IN IF a.tag[n] THEN IslandNeighbors(st, infer, ns, i + 1, a)
          ELSE LET t == [a EXCEPT !.tag[n] = TRUE]
               IN IslandNeighbors(st, infer, ns, i + 1,
                    IF st[n] = WATER
                      THEN [t EXCEPT !.walls = Append(@, n)]
                    ELSE IF is_seed(st, n)
                      THEN [t EXCEPT !.spaces = Append(@, n), !.cq = Put(@, n),
                                     !.numbers = Append(@, n)]
                    ELSE IF st[n] = ISLAND
                      THEN [t EXCEPT !.spaces = Append(@, n), !.cq = Put(@, n)]
                    ELSE IF infer
                      THEN [t EXCEPT !.dofs = Append(@, n), !.cq = Put(@, n)]
                    ELSE [t EXCEPT !.dofs = Append(@, n)])
RECURSIVE IslandCrawl(_, _, _)
IslandCrawl(st, infer, a) ==
  IF a.cq = <<>> THEN a
  ELSE IslandCrawl(st, infer,
         IslandNeighbors(st, infer, neighbors(Head(a.cq)), 1,
                         [a EXCEPT !.cq = Tail(@)]))

\* "if not on infer, make sure everyone knows their owner": the first space
\* of the group whose owner is a seed gives its owner to the whole group
\* the owner given to every space of the group, those that have it included
RECURSIVE SpreadOwnerAgain(_, _, _, _)
SpreadOwnerAgain(H, spaces, o, i) ==
  IF Past(H, i, Len(spaces)) THEN H
  ELSE SpreadOwnerAgain(set_owner(H, spaces[i], o), spaces, o, i + 1)
RECURSIVE SpreadOwner(_, _, _, _)
SpreadOwner(H, spaces, o, i) ==
  IF Past(H, i, Len(spaces)) THEN H
  ELSE IF H.owner[spaces[i]] # o
    THEN SpreadOwner(set_owner(H, spaces[i], o), spaces, o, i + 1)
  ELSE SpreadOwner(H, spaces, o, i + 1)
KnowOwners(H, spaces) ==
  LET found == {i \in 1..Len(spaces) :
                  /\ H.owner[spaces[i]] # 0
                  /\ is_seed(H.st, H.owner[spaces[i]])}
  IN IF found = {} THEN H
     ELSE LET first == CHOOSE i \in found : \A j \in found : i <= j
          IN SpreadOwner(H, spaces, H.owner[spaces[first]], 1)

\* a water group typed without the look for a puddle
WaterTypeNoPuddle(st, spaces, dofs) ==
  IF Len(dofs) = 0 THEN "CLOSED_WATER" ELSE "WATER"

\* the type of a water group
WaterType(st, spaces, dofs) ==
  IF \E i \in 1..Len(spaces) :
       is_puddle(st, CellX(cols, spaces[i]), CellY(cols, spaces[i]))
    THEN "INVALID_WATER"
  ELSE IF Len(dofs) = 0 THEN "CLOSED_WATER"
  ELSE "WATER"

\* an island group typed without the comparison of its inferred size with
\* its number
IslandTypeAnySize(st, infer, spaces, dofs, numbers) ==
  IF Len(numbers) = 0
    THEN IF Len(spaces) > 0
           THEN IF infer THEN "INVALID_ISLAND" ELSE "LONE_ISLAND"
         ELSE "LONE_BLANK"
  ELSE IF Len(numbers) > 1
    THEN IF ~infer THEN "INVALID_ISLAND"
         ELSE IF SumSeq([i \in 1..Len(numbers) |-> st[numbers[i]]]) + 1
                   > Len(dofs) + Len(spaces)
           THEN "INVALID_ISLAND"
         ELSE "INCOMPLETE"
  ELSE IF Len(spaces) > st[numbers[1]] THEN "INVALID_ISLAND"
  ELSE IF infer \/ Len(spaces) = st[numbers[1]] THEN "ISLAND"
  ELSE "INCOMPLETE"

\* an island group typed with the size of its spaces alone in both modes
IslandTypeStrictSize(st, infer, spaces, dofs, numbers) ==
  LET size == Len(spaces)
      seed_num == Len(numbers)
  IN IF seed_num = 0
       THEN IF Len(spaces) > 0
              THEN IF infer THEN "INVALID_ISLAND" ELSE "LONE_ISLAND"
            ELSE "LONE_BLANK"
     ELSE IF seed_num > 1
       THEN IF ~infer THEN "INVALID_ISLAND"
            ELSE IF SumSeq([i \in 1..seed_num |-> st[numbers[i]]]) + 1 > size
              THEN "INVALID_ISLAND"
            ELSE "INCOMPLETE"
     ELSE LET num == st[numbers[1]]
          IN IF Len(spaces) > num THEN "INVALID_ISLAND"
             ELSE IF size = num THEN "ISLAND"
             ELSE IF size > num THEN "INCOMPLETE"
             ELSE IF infer THEN "INVALID_ISLAND"
             ELSE "INCOMPLETE"

\* the type of an island group
IslandType(st, infer, spaces, dofs, numbers) ==
  LET size == IF infer THEN Len(dofs) + Len(spaces) ELSE Len(spaces)
      seed_num == Len(numbers)
  IN IF seed_num = 0
       THEN IF Len(spaces) > 0
              THEN IF infer THEN "INVALID_ISLAND" ELSE "LONE_ISLAND"
            ELSE "LONE_BLANK"
     ELSE IF seed_num > 1
       THEN IF ~infer THEN "INVALID_ISLAND"
            ELSE IF SumSeq([i \in 1..seed_num |-> st[numbers[i]]]) + 1 > size
              THEN "INVALID_ISLAND"
            ELSE "INCOMPLETE"
     ELSE LET num == st[numbers[1]]
          IN IF Len(spaces) > num THEN "INVALID_ISLAND"
             ELSE IF size = num THEN "ISLAND"
             ELSE IF size > num THEN "INCOMPLETE"
             ELSE IF infer THEN "INVALID_ISLAND"
             ELSE "INCOMPLETE"

\* a find_group that leaves the tags of the cells it has crawled over
RememberTagged(H, c, g, infer, remember) ==
  [H |-> [H EXCEPT
            !.group = Table([x \in DOMAIN @ |->
                         IF (remember /\ x \in SeqSet(g.spaces))
                            \/ (remember /\ H.st[c] # WATER /\ infer
                                /\ x \in SeqSet(g.dofs))
                           THEN g ELSE @[x]])],
   g |-> g]
\* wipe the tags of the group's cells and point its members to the group:
\* [H, g] with g the Group that find_group returns
Remember(H, c, g, infer, remember) ==
  LET touched == SeqSet(g.dofs) \cup SeqSet(g.walls) \cup SeqSet(g.spaces)
      onDofs == remember /\ H.st[c] # WATER /\ infer
  IN [H |-> [H EXCEPT
               !.tag = Table([x \in DOMAIN @ |-> IF x \in touched THEN FALSE ELSE @[x]]),
               !.group = Table([x \in DOMAIN @ |->
                            IF (remember /\ x \in SeqSet(g.spaces))
                               \/ (onDofs /\ x \in SeqSet(g.dofs))
                              THEN g ELSE @[x]])],
      g |-> g]

\* the Group made of a finished water crawl a
WaterGroup(H, c, infer, remember, a) ==
  Remember([H EXCEPT !.tag = a.tag], c,
           [id |-> H.gc, inferred |-> infer,
            type |-> WaterType(H.st, a.spaces, a.dofs),
            spaces |-> a.spaces, dofs |-> a.dofs, walls |-> a.walls,
            numbers |-> <<>>],
           infer, remember)

\* the Group made of a finished island crawl a of a known type; on infer a
\* group of the right size marks its blanks INFER and counts them as spaces
IslandGroup(H, c, infer, remember, a, type) ==
  Remember(IF type = "ISLAND" /\ infer
             THEN [H EXCEPT !.st = Table([x \in DOMAIN @ |->
                     IF x \in SeqSet(a.dofs) THEN INFER ELSE @[x]])]
           ELSE H,
           c,
           [id |-> H.gc, inferred |-> infer, type |-> type,
            spaces |-> IF type = "ISLAND" /\ infer THEN a.spaces \o a.dofs
                       ELSE a.spaces,
            dofs |-> IF type = "ISLAND" /\ infer THEN <<>> ELSE a.dofs,
            walls |-> a.walls, numbers |-> a.numbers],
           infer, remember)
\* after the island crawl: the owners, then the type
IslandFound(H, c, infer, remember, a) ==
  IslandGroup(IF ~infer /\ remember
                THEN KnowOwners([H EXCEPT !.tag = a.tag], a.spaces)
              ELSE [H EXCEPT !.tag = a.tag],
              c, infer, remember, a,
              IslandType(H.st, infer, a.spaces, a.dofs, a.numbers))

\* the crawl before its first round: only the start is tagged and queued
CrawlStart(H, c) ==
  [tag |-> [H.tag EXCEPT ![c] = TRUE], spaces |-> <<>>, dofs |-> <<>>,
   walls |-> <<>>, numbers |-> <<>>, cq |-> <<c>>]

\* find_group past its two early returns: a new Group is numbered and made
ComputeGroup(H, c, infer, remember) ==
  IF H.st[c] = WATER
    THEN WaterGroup([H EXCEPT !.gc = @ + 1], c, infer, remember,
                    WaterCrawl(H.st, [CrawlStart(H, c) EXCEPT !.spaces = <<c>>]))
  ELSE IslandFound([H EXCEPT !.gc = @ + 1], c, infer, remember,
                   IslandCrawl(H.st, infer,
                     [CrawlStart(H, c) EXCEPT
                        !.numbers = IF is_seed(H.st, c) THEN <<c>> ELSE <<>>,
                        !.dofs = IF H.st[c] = BLANK THEN <<c>> ELSE <<>>,
                        !.spaces = IF H.st[c] = BLANK THEN <<>> ELSE <<c>>]))

\* Space.find_group(infer, remember): [H, g]
find_group(H, c, infer, remember) ==
  IF remember /\ H.group[c] # NoGroup /\ H.group[c].inferred = infer
    THEN [H |-> H, g |-> H.group[c]]
  ELSE IF ~infer /\ H.st[c] = BLANK
    THEN [H |-> H, g |-> H.group[c]]
  ELSE ComputeGroup(H, c, infer, remember)

\* Space.forget_group
forget_group(H, c) ==
  IF H.group[c] = NoGroup THEN H
  ELSE LET g == H.group[c]
           gone == SeqSet(g.spaces) \cup
                   (IF g.type # "WATER" /\ g.type # "INVALID_WATER"
                      THEN SeqSet(g.dofs) ELSE {})
       IN [H EXCEPT !.group = Table([x \in DOMAIN @ |->
                                 IF x \in gone THEN NoGroup ELSE @[x]])]

\* Space.forget_reachers
forget_reachers(H, c) ==
  LET mine == SeqSet(H.owns[c])
      H1 == [H EXCEPT
               !.owner = Table([x \in DOMAIN @ |-> IF x \in mine THEN 0 ELSE @[x]]),
               !.reachers = Table([x \in DOMAIN @ |-> IF x \in mine THEN <<>> ELSE @[x]]),
               !.owns = Table([x \in DOMAIN @ |-> IF x \in mine THEN <<>> ELSE @[x]])]
  IN IF is_seed(H.st, c)
       THEN [H1 EXCEPT !.reachers[c] = NoneList, !.owner[c] = c, !.owns[c] = <<c>>]
     ELSE [H1 EXCEPT !.reachers[c] = <<>>, !.owner[c] = 0, !.owns[c] = <<>>]

\* ------------------------------------------------------------ Grid.status
\* the sweep over the seeds: ERROR on a crowded island; r is the strict
\* group of seed i
RECURSIVE StatusSeeds(_, _)
StatusSeed(r, i) ==
  IF r.g.type = "INVALID_ISLAND" THEN [H |-> r.H, v |-> "ERROR"]
  ELSE StatusSeeds(r.H, i + 1)
StatusSeeds(H, i) ==
  IF i > Len(seeds) THEN [H |-> H, v |-> "NONE"]
  ELSE StatusSeed(find_group(H, seeds[i], FALSE, TRUE), i)

\* the sweep over the cells that are not water; a = [H, seen, incomplete, v]
\* where seen is the set of cells with an entry in infer_groups, and r the
\* inferred group of cell c
RECURSIVE StatusIslands(_, _)
\* the sweep over the islands gone on past an invalid island
StatusIslandOn(a, c, r) ==
  StatusIslands(
    [a EXCEPT !.H = r.H,
       !.incomplete = @ \/ r.g.type \in {"INCOMPLETE", "LONE_BLANK"},
       !.seen = @ \cup SeqSet(r.g.spaces) \cup SeqSet(r.g.dofs)],
    c + 1)
StatusIsland(a, c, r) ==
  IF r.g.type = "INVALID_ISLAND" THEN [a EXCEPT !.H = r.H, !.v = "ERROR"]
  ELSE StatusIslands(
         [a EXCEPT !.H = r.H,
            !.incomplete = @ \/ r.g.type \in {"INCOMPLETE", "LONE_BLANK"},
            !.seen = @ \cup SeqSet(r.g.spaces) \cup SeqSet(r.g.dofs)],
         c + 1)
StatusIslands(a, c) ==
  IF c > rows * cols THEN a
  ELSE IF a.H.st[c] = WATER \/ c \in a.seen THEN StatusIslands(a, c + 1)
  ELSE StatusIsland(a, c, find_group(a.H, c, TRUE, FALSE))

\* the sweep over the water; a = [H, seen, water_count, target_acquired, v]
RECURSIVE StatusWaters(_, _)
\* the sweep over the water without the comparison of a closed water with
\* the target
StatusWaterAnySize(a, c, r) ==
  IF r.g.type = "INVALID_WATER"
    THEN [a EXCEPT !.H = r.H, !.water_count = @ + 1, !.v = "ERROR"]
  ELSE StatusWaters(
         [a EXCEPT !.H = r.H, !.water_count = @ + 1,
            !.target_acquired = @ \/ r.g.type = "CLOSED_WATER",
            !.seen = @ \cup SeqSet(r.g.spaces)],
         c + 1)
\* one water group of the sweep: r is the inferred group of cell c
StatusWater(a, c, r) ==
  IF r.g.type = "INVALID_WATER"
    THEN [a EXCEPT !.H = r.H, !.water_count = @ + 1, !.v = "ERROR"]
  ELSE IF r.g.type = "CLOSED_WATER" /\ Len(r.g.spaces) # target
    THEN [a EXCEPT !.H = r.H, !.water_count = @ + 1, !.v = "ERROR"]
  ELSE StatusWaters(
         [a EXCEPT !.H = r.H, !.water_count = @ + 1,
            !.target_acquired = @ \/ r.g.type = "CLOSED_WATER",
            !.seen = @ \cup SeqSet(r.g.spaces)],
         c + 1)
StatusWaters(a, c) ==
  IF c > rows * cols THEN a
  ELSE IF a.H.st[c] # WATER \/ c \in a.seen THEN StatusWaters(a, c + 1)
  ELSE StatusWater(a, c, find_group(a.H, c, TRUE, FALSE))

\* the verdict after the three sweeps
StatusVerdict(incomplete, s3) ==
  [H |-> s3.H,
   v |-> IF s3.v = "ERROR" THEN "ERROR"
         ELSE IF s3.target_acquired /\ s3.water_count = 1 THEN "SOLVED"
         ELSE IF ~s3.target_acquired /\ incomplete THEN "OKAY"
         ELSE "ERROR"]
StatusAfterIslands(s2) ==
  IF s2.v = "ERROR" THEN [H |-> s2.H, v |-> "ERROR"]
  ELSE StatusVerdict(s2.incomplete,
                     StatusWaters([H |-> s2.H, seen |-> s2.seen,
                                   water_count |-> 0, target_acquired |-> FALSE,
                                   v |-> "NONE"], 1))
StatusAfterSeeds(s1) ==
  IF s1.v = "ERROR" THEN s1
  ELSE StatusAfterIslands(StatusIslands([H |-> s1.H, seen |-> {},
                                         incomplete |-> FALSE, v |-> "NONE"], 1))
\* Grid.status: [H, v] with v the GameState
status(H) == StatusAfterSeeds(StatusSeeds(H, 1))

\* ------------------------------------------------------------- Grid.check
\* the strict groups of the seeds that are INVALID_ISLAND ('CROWDED_ISLAND')
RECURSIVE CheckSeeds(_, _)
\* the sweep over the seeds that keeps no crowded group
CheckSeedNone(a, i, r) == CheckSeeds([a EXCEPT !.H = r.H], i + 1)
\* one seed of the sweep: r is its strict group
CheckSeed(a, i, r) ==
  IF r.g.type = "INVALID_ISLAND"
    THEN CheckSeeds([a EXCEPT !.H = r.H, !.crowded = Append(@, r.g)], i + 1)
  ELSE CheckSeeds([a EXCEPT !.H = r.H], i + 1)
CheckSeeds(a, i) ==
  IF i > Len(seeds) THEN a
  ELSE CheckSeed(a, i, find_group(a.H, seeds[i], FALSE, TRUE))
\* the inferred groups of the cells that are not water, in the order found
RECURSIVE CheckIslands(_, _)
CheckIsland(a, c, r) ==
  CheckIslands([a EXCEPT !.H = r.H, !.groups = Append(@, r.g),
                  !.seen = @ \cup SeqSet(r.g.spaces) \cup SeqSet(r.g.dofs)],
               c + 1)
CheckIslands(a, c) ==
  IF c > rows * cols THEN a
  ELSE IF a.H.st[c] = WATER \/ c \in a.seen THEN CheckIslands(a, c + 1)
  ELSE CheckIsland(a, c, find_group(a.H, c, TRUE, FALSE))
\* the water groups
RECURSIVE CheckWaters(_, _)
CheckWater(a, c, r) ==
  CheckWaters([a EXCEPT !.H = r.H, !.groups = Append(@, r.g),
                 !.seen = @ \cup SeqSet(r.g.spaces),
                 !.water_count = @ + 1,
                 !.target_acquired =
                    @ \/ (r.g.type = "CLOSED_WATER"
                          /\ Len(r.g.spaces) = target)],
              c + 1)
CheckWaters(a, c) ==
  IF c > rows * cols THEN a
  ELSE IF a.H.st[c] # WATER \/ c \in a.seen THEN CheckWaters(a, c + 1)
  ELSE CheckWater(a, c, find_group(a.H, c, TRUE, FALSE))

\* the groups of one type, in the order found
OfType(groups, type) == SelectSeq(groups, LAMBDA g : g.type = type)
\* the four cells of every puddle of a water group
PuddleCells(st, g) ==
  UNION {LET x == CellX(cols, g.spaces[i])
             y == CellY(cols, g.spaces[i])
         IN IF is_puddle(st, x, y)
              THEN {CellAt(cols, x, y), CellAt(cols, x, y + 1),
                    CellAt(cols, x + 1, y), CellAt(cols, x + 1, y + 1)}
            ELSE {} : i \in 1..Len(g.spaces)}
\* sorted(closed, key = len(spaces)): a stable insertion sort
RECURSIVE InsertBySize(_, _)
InsertBySize(sorted, g) ==
  IF sorted = <<>> THEN <<g>>
  ELSE IF Len(sorted[Len(sorted)].spaces) <= Len(g.spaces) THEN Append(sorted, g)
  ELSE Append(InsertBySize(SubSeq(sorted, 1, Len(sorted) - 1), g),
              sorted[Len(sorted)])
RECURSIVE SortBySize(_, _)
SortBySize(groups, i) ==
  IF i = 0 THEN <<>> ELSE InsertBySize(SortBySize(groups, i - 1), groups[i])

\* the closed waters that are flagged: all but the biggest when the water is
\* wrong only because it is apart
Apart(closed, water_count) ==
  IF water_count > 0 /\ water_count = Len(closed)
    THEN SubSeq(SortBySize(closed, Len(closed)), 1, Len(closed) - 1)
  ELSE SortBySize(closed, Len(closed))
\* the cells handed to controller.flagGame
Flagged(st, crowded, invalid, puddled, apart) ==
  UNION {SeqSet(crowded[i].spaces) : i \in 1..Len(crowded)}
  \cup UNION {SeqSet(invalid[i].spaces) \cup SeqSet(invalid[i].dofs) :
                i \in 1..Len(invalid)}
  \cup UNION {PuddleCells(st, puddled[i]) : i \in 1..Len(puddled)}
  \cup UNION {SeqSet(apart[i].spaces) : i \in 1..Len(apart)}
\* the verdict after the three sweeps c1, c2 and c3
CheckVerdict(c1, c2, c3) ==
  LET island_error == Len(OfType(c2.groups, "INVALID_ISLAND")) > 0
                      \/ Len(c1.crowded) > 0
      incomplete == Len(OfType(c2.groups, "INCOMPLETE")) > 0
                    \/ Len(OfType(c2.groups, "LONE_BLANK")) > 0
      water_error == Len(OfType(c3.groups, "CLOSED_WATER")) > 0
                     \/ Len(OfType(c3.groups, "INVALID_WATER")) > 0
  IN IF ~island_error /\ c3.target_acquired /\ c3.water_count = 1
       THEN [H |-> c3.H, v |-> "SOLVED", flagged |-> {}]
     ELSE IF ~island_error /\ ~water_error /\ incomplete
       THEN [H |-> c3.H, v |-> "OKAY", flagged |-> {}]
     ELSE [H |-> c3.H, v |-> "ERROR",
           flagged |-> Flagged(c3.H.st, c1.crowded,
                               OfType(c2.groups, "INVALID_ISLAND"),
                               OfType(c3.groups, "INVALID_WATER"),
                               Apart(OfType(c3.groups, "CLOSED_WATER"),
                                     c3.water_count))]
CheckAfterIslands(c1, c2) ==
  CheckVerdict(c1, c2,
               CheckWaters([H |-> c2.H, seen |-> c2.seen, groups |-> <<>>,
                            water_count |-> 0, target_acquired |-> FALSE], 1))
CheckAfterSeeds(c1) ==
  CheckAfterIslands(c1, CheckIslands([H |-> c1.H, seen |-> {},
                                      groups |-> <<>>], 1))
\* Grid.check: [H, v, flagged] with v the GameState
check(H) == CheckAfterSeeds(CheckSeeds([H |-> H, crowded |-> <<>>], 1))

\* ------------------------------------------------------------- Grid.chain
\* the chains appended by chain(this, goal, left, used, chains), in order
RECURSIVE chain(_, _, _, _, _)
RECURSIVE ChainNeighbors(_, _, _, _, _, _)
ChainNeighbors(st, this, goal, left, used, i) ==
  LET ns == neighbors(this)
  IN IF i > Len(ns) THEN <<>>
     ELSE (IF st[ns[i]] = BLANK \/ st[ns[i]] = INFER
             THEN chain(st, ns[i], goal, left - 1,
                        IF st[this] = BLANK THEN Append(used, this) ELSE used)
           ELSE <<>>)
          \o ChainNeighbors(st, this, goal, left, used, i + 1)
\* a chain that is walked on whatever island is next to it
chain_through(st, this, goal, left, used) ==
  IF this = goal THEN <<used>>
  ELSE IF left < distance(this, goal) THEN <<>>
  ELSE ChainNeighbors(st, this, goal, left, used, 1)
chain(st, this, goal, left, used) ==
  IF this = goal THEN <<used>>
  ELSE IF left < distance(this, goal) THEN <<>>
  ELSE IF \E i \in 1..Len(neighbors(this)) :
            st[neighbors(this)[i]] = ISLAND \/ st[neighbors(this)[i]] > 0
    THEN <<>>
  ELSE ChainNeighbors(st, this, goal, left, used, 1)

\* Grid.common_blanks for two spaces (the blanks bordered by both)
common_blanks(st, spaces) ==
  IF Len(spaces) = 0 THEN <<>>
  ELSE IF Len(spaces) = 1 THEN neighbors(spaces[1])
  ELSE IF Len(spaces) = 2
    THEN SortedSeq({n \in SeqSet(neighbors(spaces[1])) : st[n] = BLANK}
                   \cap {n \in SeqSet(neighbors(spaces[2])) : st[n] = BLANK})
  ELSE <<>>


\* ------------------------------------------------ Grid.calculate_reachers
\* Grid.calculate_groups(infer = False)
RECURSIVE calculate_groups(_, _)
calculate_groups(H, c) ==
  IF Past(H, c, rows * cols) THEN H
  ELSE calculate_groups(find_group(H, c, FALSE, TRUE).H, c + 1)

\* reaches(group, start_depth): a = [tag, tagged, can, clash, rq]
RECURSIVE ReachNeighbors(_, _, _, _, _, _)
ReachNeighbors(H, g, ns, depth, i, a) ==
  IF Past(a, i, Len(ns)) THEN a
  ELSE ReachNeighbors(H, g, ns, depth, i + 1,
         IF is_island(H.st, ns[i]) /\ H.owner[ns[i]] # 0
            /\ H.owner[ns[i]] # g.numbers[1]
           THEN [a EXCEPT !.clash = TRUE]
         ELSE IF ~a.tag[ns[i]] THEN [a EXCEPT !.rq = Put(@, <<ns[i], depth - 1>>)]
         ELSE a)
\* the space can be reached unless it is owned or a neighbour clashed
ReachKeep(H, space, a) ==
  IF ~a.clash /\ H.owner[space] = 0 THEN [a EXCEPT !.can = Append(@, space)]
  ELSE a
\* a round of reaches that goes no further from a cell that is neither blank
\* nor owned by the seed of the group
ReachStepBlank(H, g, space, depth, a) ==
  IF depth <= 0 THEN a
  ELSE IF H.owner[space] # 0 /\ H.owner[space] # g.numbers[1] THEN a
  ELSE IF H.st[space] # BLANK /\ H.owner[space] # g.numbers[1] THEN a
  ELSE ReachKeep(H, space, ReachNeighbors(H, g, neighbors(space), depth, 1, a))
\* one round of the loop of reaches on (space, depth), taken off the queue
ReachStep(H, g, space, depth, a) ==
  IF depth <= 0 THEN a
  ELSE IF H.owner[space] # 0 /\ H.owner[space] # g.numbers[1] THEN a
  ELSE ReachKeep(H, space, ReachNeighbors(H, g, neighbors(space), depth, 1, a))
RECURSIVE ReachLoop(_, _, _)
ReachLoop(H, g, a) ==
  IF a.rq = <<>> THEN a
  ELSE ReachLoop(H, g,
         ReachStep(H, g, Head(a.rq)[1], Head(a.rq)[2],
                   [a EXCEPT !.rq = Tail(@), !.tag[Head(a.rq)[1]] = TRUE,
                             !.tagged = @ \cup {Head(a.rq)[1]},
                             !.clash = FALSE]))
RECURSIVE ReachStart(_, _, _, _)
ReachStart(dofs, depth, i, rq) ==
  IF Past(rq, i, Len(dofs)) THEN rq
  ELSE ReachStart(dofs, depth, i + 1, Put(rq, <<dofs[i], depth>>))
\* a reach search that returns with the tags it has set
ReachResultTagged(H, a) == [H |-> [H EXCEPT !.tag = a.tag], can |-> a.can]
\* the tags are wiped and can_reach returned: [H, can]
ReachResult(H, a) ==
  [H |-> [H EXCEPT !.tag = Table([x \in DOMAIN @ |->
                              IF x \in a.tagged THEN FALSE ELSE a.tag[x]])],
   can |-> a.can]
reaches(H, g, start_depth) ==
  ReachResult(H, ReachLoop(H, g, [tag |-> H.tag, tagged |-> {}, can |-> <<>>,
                                  clash |-> FALSE,
                                  rq |-> ReachStart(g.dofs, start_depth, 1, <<>>)]))

\* for space in can_reach: space.reachers.append(seed)
RECURSIVE AppendReacher(_, _, _, _)
AppendReacher(H, can, seed, i) ==
  IF Past(H, i, Len(can)) THEN H
  ELSE AppendReacher([H EXCEPT !.reachers[can[i]] = Append(@, seed)],
                     can, seed, i + 1)
AppendReached(r, seed) == AppendReacher(r.H, r.can, seed, 1)
\* the reachers of a seed from its remembered group alone
ReachFromGroup(H, seed) ==
  AppendReached(reaches(H, H.group[seed],
                        H.st[seed] - Len(H.group[seed].spaces)),
                seed)

\* the sweep that empties the reacher lists and collects, for every seed
\* that owns part of a lone island, its own group and those lone islands;
\* a = [H, chainers] with chainers a list of [seed, groups]
ChainerIndex(chainers, seed) ==
  {k \in 1..Len(chainers) : chainers[k].seed = seed}
PutGroup(groups, g) ==
  IF \E k \in 1..Len(groups) : groups[k].id = g.id THEN groups
  ELSE Append(groups, g)
\* group.numbers = [seed]: the Group object is shared by the cells that
\* remember it
NumberGroup(H, g, o) ==
  [H EXCEPT !.group = Table([x \in DOMAIN @ |->
     IF @[x].id = g.id THEN [g EXCEPT !.numbers = <<o>>] ELSE @[x]])]
\* chainers[seed] is created with the seed's own group
WithChainer(H, chainers, o) ==
  IF ChainerIndex(chainers, o) = {}
    THEN Append(chainers, [seed |-> o, groups |-> <<H.group[o]>>])
  ELSE chainers
AddChained(chainers, o, g) ==
  [chainers EXCEPT ![CHOOSE k \in ChainerIndex(chainers, o) : TRUE].groups =
     PutGroup(@, g)]
\* one space with its reacher list emptied
SweepSpace(H, c, chainers) ==
  IF H.group[c] # NoGroup /\ H.group[c].type = "LONE_ISLAND"
     /\ H.owner[c] # 0 /\ is_seed(H.st, H.owner[c])
    THEN [H |-> NumberGroup(H, H.group[c], H.owner[c]),
          chainers |->
            AddChained(WithChainer(NumberGroup(H, H.group[c], H.owner[c]),
                                   chainers, H.owner[c]),
                       H.owner[c],
                       [H.group[c] EXCEPT !.numbers = <<H.owner[c]>>])]
  ELSE [H |-> H, chainers |-> chainers]
RECURSIVE ReacherSweep(_, _)
ReacherSweep(a, c) ==
  IF Past(a, c, rows * cols) THEN a
  ELSE ReacherSweep(
         SweepSpace(IF a.H.owner[c] = 0 THEN [a.H EXCEPT !.reachers[c] = <<>>]
                    ELSE a.H,
                    c, a.chainers),
         c + 1)

\* the seeds without chainers, in the order of Grid.seeds
RECURSIVE ReachPlain(_, _, _)
ReachPlain(H, chained, i) ==
  IF Past(H, i, Len(seeds)) THEN H
  ELSE ReachPlain(IF seeds[i] \in chained THEN H ELSE ReachFromGroup(H, seeds[i]),
                  chained, i + 1)

\* set the state of every cell of a list
RECURSIVE SetStates(_, _, _, _)
SetStates(H, cells, state, i) ==
  IF Past(H, i, Len(cells)) THEN H
  ELSE SetStates([H EXCEPT !.st[cells[i]] = state], cells, state, i + 1)

\* all chains from the spaces of one group to the spaces of the other
RECURSIVE ChainsBetween(_, _, _, _, _, _)
ChainsBetween(st, from, to, left, i, j) ==
  IF i > Len(from) THEN <<>>
  ELSE IF j > Len(to) THEN ChainsBetween(st, from, to, left, i + 1, 1)
  ELSE chain(st, from[i], to[j], left, <<>>)
       \o ChainsBetween(st, from, to, left, i, j + 1)

\* "for each chain, pretend it's a group, find out everything it can reach";
\* a = [H, can_reaches]
RECURSIVE ForgetChain(_, _, _)
ForgetChain(H, ch, i) ==
  IF Past(H, i, Len(ch)) THEN H
  ELSE ForgetChain(forget_reachers([H EXCEPT !.st[ch[i]] = BLANK], ch[i]),
                   ch, i + 1)
\* the chain is unmarked and what its group r reaches is kept
ChainReached(a, ch, r) ==
  [H |-> ForgetChain(r.H, ch, 1), can_reaches |-> Append(a.can_reaches, r.can)]
\* f is the group of the seed with the chain marked as island
TryChain(a, seed, ch, f) ==
  ChainReached(a, ch, reaches(f.H, f.g, f.H.st[seed] - Len(f.g.spaces)))
RECURSIVE TryChains(_, _, _, _)
TryChains(a, seed, chains, k) ==
  IF Past(a, k, Len(chains)) THEN a
  ELSE TryChains(
         TryChain(a, seed, chains[k],
                  find_group(SetStates(a.H, chains[k], ISLAND, 1), seed,
                             FALSE, FALSE)),
         seed, chains, k + 1)

SeqsUnion(ss) == UNION {SeqSet(ss[k]) : k \in 1..Len(ss)}
SeqsIntersection(ss) ==
  IF Len(ss) = 0 THEN {}
  ELSE {x \in SeqSet(ss[1]) : \A k \in 1..Len(ss) : x \in SeqSet(ss[k])}

\* the (island, owner) pairs of a list of cells
PairsWith(cells, seed) == [k \in 1..Len(cells) |-> <<cells[k], seed>>]
\* after the chains were tried (t): without chains the seed reaches from its
\* group alone, else what the chains and their groups reach, and the spaces
\* that are in every chain must be islands
ChainsTried(a, seed, chains, t) ==
  IF chains = <<>> THEN [a EXCEPT !.H = ReachFromGroup(t.H, seed)]
  ELSE [H |-> AppendReacher(t.H,
                SortedSeq(SeqsUnion(chains) \cup SeqsUnion(t.can_reaches)),
                seed, 1),
        must |-> a.must \o PairsWith(SortedSeq(SeqsIntersection(chains)), seed)]
\* "revert everything back to its original state", then try the chains
ReachByChains(a, seed, chains) ==
  ChainsTried(a, seed, chains,
    TryChains([H |-> [SetStates(a.H, a.H.owns[seed], ISLAND, 1) EXCEPT
                        !.st[seed] = a.H.st[seed]],
               can_reaches |-> <<>>],
              seed, chains, 1))
\* the spaces left to link the two groups of a seed
ChainLeft(H, seed, groups) ==
  H.st[seed] - Len(groups[1].spaces) - Len(groups[2].spaces) + 1
\* one seed with faraway groups; a = [H, must]
ReachChained(a, seed, groups) ==
  IF Len(groups) > 2 \/ ChainLeft(a.H, seed, groups) > 6
    THEN [a EXCEPT !.H = ReachFromGroup(a.H, seed)]
  ELSE ReachByChains(a, seed,
         ChainsBetween(SetStates(a.H, a.H.owns[seed], INFER, 1).st,
                       groups[1].spaces, groups[2].spaces,
                       ChainLeft(a.H, seed, groups), 1, 1))
RECURSIVE ReachAllChained(_, _, _)
ReachAllChained(a, chainers, k) ==
  IF Past(a, k, Len(chainers)) THEN a
  ELSE ReachAllChained(ReachChained(a, chainers[k].seed, chainers[k].groups),
                       chainers, k + 1)

\* after the sweep sw: the plain seeds, then the seeds with chainers
ReachSeeds(sw) ==
  ReachAllChained(
    [H |-> ReachPlain(sw.H, {sw.chainers[k].seed : k \in 1..Len(sw.chainers)}, 1),
     must |-> <<>>],
    sw.chainers, 1)
\* Grid.calculate_reachers: [H, must] with must the (island, owner) pairs
calculate_reachers(H) ==
  ReachSeeds(ReacherSweep([H |-> calculate_groups(H, 1), chainers |-> <<>>], 1))

\* --------------------------------------------------- Grid.from_good_pairs
\* good_pair((x, y)): the two blanks of the block, or <<>> for None
GoodBlanks(H, blanks) ==
  IF Len(H.reachers[blanks[1]]) # 1 \/ Len(H.reachers[blanks[2]]) # 1
     \/ H.reachers[blanks[1]][1] # H.reachers[blanks[2]][1]
    THEN <<>>
  ELSE IF CellX(cols, blanks[1]) = CellX(cols, blanks[2])
          \/ CellY(cols, blanks[1]) = CellY(cols, blanks[2])
    THEN blanks
  ELSE <<>>
Block(x, y) ==
  <<CellAt(cols, x, y), CellAt(cols, x + 1, y),
    CellAt(cols, x, y + 1), CellAt(cols, x + 1, y + 1)>>
good_pair(H, x, y) ==
  IF Len(SelectSeq(Block(x, y), LAMBDA c : H.st[c] = WATER)) # 2
     \/ Len(SelectSeq(Block(x, y), LAMBDA c : H.st[c] = BLANK)) # 2
    THEN <<>>
  ELSE GoodBlanks(H, SelectSeq(Block(x, y), LAMBDA c : H.st[c] = BLANK))
\* the spaces that appear in every chain from the seed to the target
ChainOverlap(st, seed, goal, left) ==
  SeqsIntersection(chain(st, seed, goal, left, <<>>))
\* the spaces that both blanks of the pair need: o1 and o2 are the overlaps
\* of the chains to the first and to the second blank
Necessary(res, o1, o2) ==
  SortedSeq(o1 \cap o2)
  \o (IF res[1] \in o2 THEN <<res[1]>> ELSE <<>>)
  \o (IF res[2] \in o1 THEN <<res[2]>> ELSE <<>>)
\* a good pair res of a seed with group f; a = [H, must]
GoodPairSeed(a, res, seed, f, left) ==
  IF left >= 6 THEN [a EXCEPT !.H = f.H]
  ELSE [H |-> [SetStates(f.H, f.H.owns[seed], ISLAND, 1) EXCEPT
                 !.st[seed] = f.H.st[seed]],
        must |-> a.must \o
          PairsWith(
            Necessary(res,
              ChainOverlap(SetStates(f.H, f.H.owns[seed], INFER, 1).st,
                           seed, res[1], left),
              ChainOverlap(SetStates(f.H, f.H.owns[seed], INFER, 1).st,
                           seed, res[2], left)),
            seed)]
GoodPairGroup(a, res, seed, f) ==
  GoodPairSeed(a, res, seed, f, f.H.st[seed] - Len(f.g.spaces) + 1)
\* the scan over the blocks; res is the good pair of block (x, y)
RECURSIVE GoodPairScan(_, _, _)
GoodPairFound(a, x, y, res) ==
  IF res = <<>> THEN GoodPairScan(a, x + 1, y)
  ELSE GoodPairScan(
         GoodPairGroup(a, res, a.H.reachers[res[1]][1],
                       find_group(a.H, a.H.reachers[res[1]][1], FALSE, TRUE)),
         x + 1, y)
GoodPairScan(a, x, y) ==
  IF y >= rows - 1 THEN a
  ELSE IF x >= cols - 1 THEN GoodPairScan(a, 0, y + 1)
  ELSE GoodPairFound(a, x, y, good_pair(a.H, x, y))
\* Grid.from_good_pairs: [H, must]
from_good_pairs(H) == GoodPairScan([H |-> H, must |-> <<>>], 0, 0)

\* ------------------------------------------------- the closures of solve
\* for n in space.neighbors: n.forget_group(), with a change put on the
\* controller's queue on every round of the loop
RECURSIVE ForgetAround(_, _, _, _)
ForgetAround(H, c, state, i) ==
  IF Past(H, i, Len(neighbors(c))) THEN H
  ELSE ForgetAround(
         IF solving
           THEN [forget_group(H, neighbors(c)[i]) EXCEPT
                   !.ev = Append(@, <<c, state>>)]
         ELSE forget_group(H, neighbors(c)[i]),
         c, state, i + 1)
RECURSIVE PutAll(_, _, _)
PutAll(wq, cells, i) ==
  IF Past(wq, i, Len(cells)) THEN wq ELSE PutAll(Put(wq, cells[i]), cells, i + 1)
RECURSIVE OwnAll(_, _, _, _)
OwnAll(H, cells, o, i) ==
  IF Past(H, i, Len(cells)) THEN H ELSE OwnAll(set_owner(H, cells[i], o), cells, o, i + 1)

\* alter, a new island without known owner: f is its strict group
OwnIsland(f, c) ==
  IF f.H.owner[c] # 0 THEN f.H
  ELSE IF Len(f.g.numbers) > 0
    THEN OwnAll(f.H, f.g.spaces, f.H.group[c].numbers[1], 1)
  ELSE IF Len(f.H.reachers[c]) = 1 THEN set_owner(f.H, c, f.H.reachers[c][1])
  ELSE f.H
\* alter, after the state is set and the groups around are forgotten
Altered(H, c, state, known_owner) ==
  IF known_owner # 0 THEN set_owner(H, c, known_owner)
  ELSE IF state = WATER THEN set_owner(H, c, c)
  ELSE IF state = ISLAND THEN OwnIsland(find_group(H, c, FALSE, TRUE), c)
  ELSE H
\* alter, after the neighbours and the space are put on the queue
AlterQueued(H, c, state, known_owner) ==
  IF H.st[c] = state /\ known_owner = H.owner[c] THEN H
  ELSE Altered(ForgetAround(forget_group([H EXCEPT !.st[c] = state], c),
                            c, state, 1),
               c, state, known_owner)
\* alter(space, state, known_owner), known_owner = 0 for None
alter(H, c, state, known_owner) ==
  AlterQueued([H EXCEPT !.q = Put(PutAll(@, neighbors(c), 1), c)],
              c, state, known_owner)

\* save_game: the states of the cells
save_game(H) == H.st
\* a reset_game that restores only the cells the solver has coloured, and
\* leaves the marks of the inferred islands
RECURSIVE reset_coloured(_, _, _)
reset_coloured(H, old, c) ==
  IF Past(H, c, rows * cols) THEN H
  ELSE reset_coloured(
         forget_reachers(
           forget_group(
             IF H.st[c] # old[c] /\ H.st[c] # INFER
               THEN [H EXCEPT !.st[c] = old[c],
                       !.ev = IF solving THEN Append(@, <<c, old[c]>>) ELSE @]
             ELSE H,
             c),
           c),
         old, c + 1)
\* a reset_game that forgets the groups and the reachers and leaves the
\* states of the cells as they are
RECURSIVE reset_kept(_, _, _)
reset_kept(H, old, c) ==
  IF Past(H, c, rows * cols) THEN H
  ELSE reset_kept(forget_reachers(forget_group(H, c), c), old, c + 1)
\* reset_game(old)
RECURSIVE reset_game(_, _, _)
reset_game(H, old, c) ==
  IF Past(H, c, rows * cols) THEN H
  ELSE reset_game(
         forget_reachers(
           forget_group(
             IF H.st[c] # old[c]
               THEN [H EXCEPT !.st[c] = old[c],
                       !.ev = IF solving THEN Append(@, <<c, old[c]>>) ELSE @]
             ELSE H,
             c),
           c),
         old, c + 1)

\* process(): clear the queue by the local rules
RECURSIVE AlterAll(_, _, _, _)
AlterAll(H, cells, state, i) ==
  IF Past(H, i, Len(cells)) THEN H
  ELSE AlterAll(alter(H, cells[i], state, 0), cells, state, i + 1)
\* the owners of the islands around a space
Shores(H, c) ==
  {H.owner[n] : n \in {m \in SeqSet(neighbors(c)) :
                         is_island(H.st, m) /\ H.owner[m] # 0}}
\* a water that stays where it is
ProcessWaterStay(f) == f.H
\* a water with one way out flows there; f is its group
ProcessWater(f) ==
  IF Len(f.g.dofs) = 1 /\ Len(f.g.spaces) < target
    THEN alter(f.H, f.g.dofs[1], WATER, 0)
  ELSE f.H
\* a complete island is closed, an island with one way out grows there
ProcessIsland(f, left) ==
  IF left = 0 THEN AlterAll(f.H, f.g.dofs, WATER, 1)
  ELSE IF Len(f.g.dofs) = 1 THEN alter(f.H, f.g.dofs[1], ISLAND, 0)
  ELSE f.H
IslandLeft(f) ==
  ProcessIsland(f, IF f.g.type = "LONE_ISLAND" THEN 1
                   ELSE f.H.st[f.g.numbers[1]] - Len(f.g.spaces))
\* one space taken off the queue
ProcessSpace(H, this) ==
  IF H.st[this] = WATER THEN ProcessWater(find_group(H, this, FALSE, TRUE))
  ELSE IF is_island(H.st, this)
    THEN IslandLeft(find_group(H, this, FALSE, TRUE))
  ELSE IF H.st[this] = BLANK /\ Cardinality(Shores(H, this)) >= 2
    THEN alter(H, this, WATER, 0)
  ELSE H
\* process_all(): the outer loop over all rules.  "changed" is what alter
\* returns, which is always True.
\* "check occasionally finds islands": every INFER cell becomes an island
RECURSIVE PromoteInfer(_, _)
PromoteInfer(a, c) ==
  IF Past(a, c, rows * cols) THEN a
  ELSE PromoteInfer(IF a.H.st[c] = INFER
                      THEN [H |-> alter(a.H, c, ISLAND, 0), changed |-> TRUE]
                    ELSE a,
                    c + 1)
\* for isle, owner in island_owner_pairs: changed = alter(isle, ISLAND, owner)
RECURSIVE AlterPairs(_, _, _)
AlterPairs(a, pairs, i) ==
  IF Past(a, i, Len(pairs)) THEN a
  ELSE AlterPairs([H |-> alter(a.H, pairs[i][1], ISLAND, pairs[i][2]),
                   changed |-> TRUE],
                  pairs, i + 1)
\* r = [H, must]: the pairs found by a rule are applied
WithMust(a, r) == AlterPairs([a EXCEPT !.H = r.H], r.must, 1)
\* blanks that no seed reaches become water; a lone island with one reacher
\* gets it as owner
UnreachableAt(a, c) ==
  IF a.H.st[c] = BLANK /\ a.H.owner[c] = 0
     /\ (a.H.reachers[c] = <<>> \/ a.H.reachers[c] = NoneList)
    THEN [H |-> alter(a.H, c, WATER, 0), changed |-> TRUE]
  ELSE IF a.H.st[c] = ISLAND /\ a.H.owner[c] = 0 /\ Len(a.H.reachers[c]) = 1
          /\ a.H.reachers[c][1] # c
    THEN [H |-> alter(a.H, c, ISLAND, a.H.reachers[c][1]), changed |-> TRUE]
  ELSE a
RECURSIVE Unreachable(_, _)
Unreachable(a, c) ==
  IF Past(a, c, rows * cols) THEN a ELSE Unreachable(UnreachableAt(a, c), c + 1)
\* the blanks that would complete, as water, the block they are the top-left
\* cell of
AntipuddlesCorner(st) ==
  SortedSeq({c \in Cells :
    /\ st[c] = BLANK
    /\ is_puddle([st EXCEPT ![c] = WATER], CellX(cols, c), CellY(cols, c))})
\* the blanks that would complete a puddle as water
Antipuddles(st) ==
  SortedSeq({c \in Cells :
    /\ st[c] = BLANK
    /\ LET w == [st EXCEPT ![c] = WATER]
           x == CellX(cols, c)
           y == CellY(cols, c)
       IN is_puddle(w, x, y) \/ is_puddle(w, x, y - 1)
          \/ is_puddle(w, x - 1, y) \/ is_puddle(w, x - 1, y - 1)})
RECURSIVE AlterList(_, _, _, _)
AlterList(a, cells, state, i) ==
  IF Past(a, i, Len(cells)) THEN a
  ELSE AlterList([H |-> alter(a.H, cells[i], state, 0), changed |-> TRUE],
                 cells, state, i + 1)
\* an island one short of its number whose two dofs share a blank; f is the
\* group of seed i
RECURSIVE Forks(_, _)
Fork(a, i, f) ==
  IF f.H.st[seeds[i]] - Len(f.g.spaces) = 1 /\ Len(f.g.dofs) = 2
    THEN Forks(AlterList([a EXCEPT !.H = f.H],
                         common_blanks(f.H.st, f.g.dofs), WATER, 1),
               i + 1)
  ELSE Forks([a EXCEPT !.H = f.H], i + 1)
Forks(a, i) ==
  IF Past(a, i, Len(seeds)) THEN a
  ELSE Fork(a, i, find_group(a.H, seeds[i], FALSE, TRUE))
\* the rules of one round of the loop body, in the order of the code
Reached(a) == WithMust(a, calculate_reachers(a.H))
Antipuddled(a) == AlterList(a, Antipuddles(a.H.st), ISLAND, 1)
GoodPaired(a) == WithMust(a, from_good_pairs(a.H))

\* guess_score(space), doubled to stay in the integers: [H, score]; f is
\* the group of reacher i
ReacherScored(a, c, seed, f) ==
  [H |-> f.H,
   score |-> a.score
             + 2 * (10 \div Max(f.H.st[seed] - Len(f.g.spaces), 1))
             - 6 * distance(c, seed)]
RECURSIVE ReacherScore(_, _, _, _)
ReacherScore(a, c, rs, i) ==
  IF Past(a, i, Len(rs)) THEN a
  ELSE ReacherScore(
         ReacherScored(a, c, rs[i], find_group(a.H, rs[i], FALSE, FALSE)),
         c, rs, i + 1)
guess_score(H, c) ==
  ReacherScore([H |-> H,
                score |-> -10 * Cardinality({i \in 1..Len(neighbors(c)) :
                                    H.st[neighbors(c)[i]] = BLANK})
                          + Abs(CellX(cols, c) - (cols \div 2))
                          + Abs(CellY(cols, c) - (rows \div 2))],
               c, H.reachers[c], 1)
\* Grid.get_blanks
get_blanks(st) == SortedSeq({c \in Cells : st[c] = BLANK})
\* sorted(blanks, key = guess_score, reverse = True): stable, best first;
\* a = [H, sorted] with sorted a list of <<cell, score>>
RECURSIVE InsertByScore(_, _)
InsertByScore(sorted, e) ==
  IF sorted = <<>> THEN <<e>>
  ELSE IF sorted[Len(sorted)][2] >= e[2] THEN Append(sorted, e)
  ELSE Append(InsertByScore(SubSeq(sorted, 1, Len(sorted) - 1), e),
              sorted[Len(sorted)])
Scored(a, c, g) ==
  [H |-> g.H, sorted |-> InsertByScore(a.sorted, <<c, g.score>>)]
RECURSIVE SortByScore(_, _, _)
SortByScore(a, blanks, i) ==
  IF Past(a, i, Len(blanks)) THEN a
  ELSE SortByScore(Scored(a, blanks[i], guess_score(a.H, blanks[i])),
                   blanks, i + 1)
\* [H, queue]: the blanks in the order in which they are guessed
Ordered(a) == [H |-> a.H, queue |-> [i \in 1..Len(a.sorted) |-> a.sorted[i][1]]]
GuessOrder(H) ==
  Ordered(SortByScore([H |-> H, sorted |-> <<>>], get_blanks(H.st), 1))

\* ------------------------------------------------------- the state machine
\* the solver's state as one record, and back
Heap ==
  [st |-> cell_state, owner |-> owner, owns |-> owns, reachers |-> reachers,
   group |-> group, tag |-> tag, gc |-> grouped_count, q |-> q, ev |-> <<>>]
Store(H) ==
  /\ cell_state' = H.st
  /\ owner' = H.owner
  /\ owns' = H.owns
  /\ reachers' = H.reachers
  /\ group' = H.group
  /\ tag' = H.tag
  /\ grouped_count' = H.gc
  /\ q' = H.q
  /\ queue' = queue \o H.ev
\* what no step of a solver and no draw of the queue changes
Fixed == UNCHANGED <<rows, cols, seeds, target, waiting, answer>>
SpaceVars ==
  <<cell_state, owner, owns, reachers, group, tag, grouped_count, q>>
SweepVars == <<guess_queue, gi, changed_count>>
GuessVars == <<save, other, by_poe>>
RecurVars == <<final_queue, index, stack>>
CallVars == <<ret, pret, changed>>

\* guessing.flag is never set, so the island is always tried first
try1 == ISLAND
try2 == WATER

\* the solver thread is inside process() or process_all(); the controller's
\* timer and buttons are taken between the operations of solve
InProcess ==
  pc \in {"process", "pa_head", "pa_infer", "pa_reach", "pa_unreach",
          "pa_puddle", "pa_pairs", "pa_forks", "pa_return"}

\* the boards of the model: up to MaxSeeds numbers of at most MaxSeedValue
\* that leave room for the water
Boards(nr, nc) ==
  UNION {{[c \in 1..(nr * nc) |-> IF c \in S THEN v[c] ELSE BLANK] :
            v \in {w \in [S -> 1..MaxSeedValue] :
                     SumSeq([i \in 1..Cardinality(S) |-> w[SortedSeq(S)[i]]])
                       <= nr * nc}} :
         S \in {T \in SUBSET (1..(nr * nc)) : Cardinality(T) <= MaxSeeds}}

\* no call of Game.getState or Game.setState yet
NoCall == [op |-> "none", x |-> 0, y |-> 0, state |-> BLANK, was |-> <<>>,
           value |-> BLANK, changed |-> FALSE, raised |-> FALSE]

\* Game(rows, cols) with a loaded board, Grid(game), and the controller
\* after newGame
Start(nr, nc, b) ==
  /\ rows = nr
  /\ cols = nc
  /\ board = b
  /\ cell_state = board
  /\ seeds = SortedSeq({c \in Cells : board[c] > 0})
  /\ target = rows * cols - SumSeq([i \in 1..Len(seeds) |-> board[seeds[i]]])
  /\ solving = FALSE
  /\ owner = [c \in Cells |-> IF board[c] > 0 THEN c ELSE 0]
  /\ owns = [c \in Cells |-> IF board[c] > 0 THEN <<c>> ELSE <<>>]
  /\ reachers = [c \in Cells |-> IF board[c] > 0 THEN NoneList ELSE <<>>]
  /\ group = [c \in Cells |-> NoGroup]
  /\ tag = [c \in Cells |-> FALSE]
  /\ grouped_count = 0
  /\ q = <<>>
  /\ queue = <<>>
  /\ ctl_status = "OKAY"
  /\ pc = "idle"
  /\ guess_queue = <<>>
  /\ gi = 0
  /\ changed_count = 0
  /\ save = <<>>
  /\ other = <<>>
  /\ by_poe = 0
  /\ final_queue = <<>>
  /\ index = 0
  /\ stack = <<>>
  /\ ret = "none"
  /\ pret = "none"
  /\ changed = FALSE
  /\ snap = <<>>
  /\ waiting = 0
  /\ answer = NoCall
\* a game of any size and any board of the model
Init == \E d \in Dims : \E b \in Boards(d[1], d[2]) : Start(d[1], d[2], b)

\* NrkbController.startSolveGame: the solver thread is started
StartSolveGame ==
  /\ pc = "idle"
  /\ ~(ctl_status = "SOLVED" \/ solving)
  /\ solving' = TRUE
  /\ queue' = <<>>
  /\ pc' = "wipe"
  /\ Fixed
  /\ UNCHANGED <<SpaceVars, board, ctl_status, snap>>
  /\ UNCHANGED <<SweepVars, GuessVars, RecurVars, CallVars>>

\* solve: "wipe the board of everything", and the dump of the board
RECURSIVE WipeCells(_, _)
WipeCells(H, c) ==
  IF Past(H, c, rows * cols) THEN H
  ELSE WipeCells(
         forget_group(
           forget_reachers(
             IF ~is_seed(H.st, c) THEN [H EXCEPT !.st[c] = BLANK] ELSE H, c),
           c),
         c + 1)
\* grouped_count and the queue start anew and the board is dumped
Dumped(H) ==
  [H EXCEPT !.gc = 0, !.q = <<>>,
            !.ev = IF solving THEN [c \in Cells |-> <<c, H.st[c]>>] ELSE <<>>]
Wipe ==
  /\ pc = "wipe"
  /\ Store(Dumped(WipeCells(Heap, 1)))
  /\ pc' = "seed"
  /\ Fixed
  /\ UNCHANGED <<solving, board, ctl_status, snap>>
  /\ UNCHANGED <<SweepVars, GuessVars, RecurVars, CallVars>>

\* solve: "fill queue with seeds, and surround trivially complete seeds with
\* water", then "if surrounded by two seeds, color and put in queue"
RECURSIVE InsertByValue(_, _, _)
InsertByValue(st, sorted, c) ==
  IF sorted = <<>> THEN <<c>>
  ELSE IF st[sorted[Len(sorted)]] >= st[c] THEN Append(sorted, c)
  ELSE Append(InsertByValue(st, SubSeq(sorted, 1, Len(sorted) - 1), c),
              sorted[Len(sorted)])
RECURSIVE SeedsByValue(_, _)
SeedsByValue(st, i) ==
  IF i = 0 THEN <<>>
  ELSE InsertByValue(st, SeedsByValue(st, i - 1), seeds[i])
RECURSIVE SeedQueue(_, _, _)
SeedQueue(H, order, i) ==
  IF Past(H, i, Len(order)) THEN H
  ELSE IF H.st[order[i]] = 1
    THEN SeedQueue(AlterAll(H, neighbors(order[i]), WATER, 1), order, i + 1)
  ELSE SeedQueue([H EXCEPT !.q = Put(@, order[i])], order, i + 1)
\* a seeding that colours the cells between two seeds ISLAND
RECURSIVE BetweenSeedsIsland(_, _)
BetweenSeedsIsland(H, c) ==
  IF Past(H, c, rows * cols) THEN H
  ELSE IF Cardinality({i \in 1..Len(neighbors(c)) :
                         is_seed(H.st, neighbors(c)[i])}) >= 2
    THEN BetweenSeedsIsland(alter(H, c, ISLAND, 0), c + 1)
  ELSE BetweenSeedsIsland(H, c + 1)
RECURSIVE BetweenSeeds(_, _)
BetweenSeeds(H, c) ==
  IF Past(H, c, rows * cols) THEN H
  ELSE IF Cardinality({i \in 1..Len(neighbors(c)) :
                         is_seed(H.st, neighbors(c)[i])}) >= 2
    THEN BetweenSeeds(alter(H, c, WATER, 0), c + 1)
  ELSE BetweenSeeds(H, c + 1)
\* the seeding, up to the call of process()
Seed ==
  /\ pc = "seed"
  /\ Store(BetweenSeeds(SeedQueue(Heap, SeedsByValue(cell_state, Len(seeds)), 1), 1))
  /\ pc' = "process"
  /\ pret' = "process_all"
  /\ Fixed
  /\ UNCHANGED <<solving, board, ctl_status, ret, changed, snap>>
  /\ UNCHANGED <<SweepVars, GuessVars, RecurVars>>

\* process(): one round of "while not q.empty()"; the call returns when the
\* queue is empty or the grid is no longer solving
Process ==
  /\ pc = "process"
  /\ IF q = <<>> \/ ~solving
       THEN /\ pc' = pret
            /\ UNCHANGED <<SpaceVars, queue>>
     ELSE /\ Store(ProcessSpace([Heap EXCEPT !.q = SubSeq(@, 1, Len(@) - 1)],
                                q[Len(q)]))
          /\ pc' = "process"
  /\ Fixed
  /\ UNCHANGED <<solving, board, ctl_status, snap>>
  /\ UNCHANGED <<SweepVars, GuessVars, RecurVars, CallVars>>

\* a call of process_all() that returns to r: "changed = True"
CallProcessAll(r) ==
  /\ pc' = "pa_head"
  /\ ret' = r
  /\ changed' = TRUE
  /\ pret' = pret

\* solve: "apply all heuristics it has"
ProcessAll ==
  /\ pc = "process_all"
  /\ CallProcessAll("sweep")
  /\ Fixed
  /\ UNCHANGED <<SpaceVars, solving, board, queue, ctl_status, snap>>
  /\ UNCHANGED <<SweepVars, GuessVars, RecurVars>>

\* process_all: "while changed and self.status() != GameState.ERROR"; v is
\* the status, which is taken only when changed
HeadVerdict(v) ==
  /\ Store(v.H)
  /\ pc' = IF v.v = "ERROR" THEN "pa_return" ELSE "pa_infer"
  /\ changed' = IF v.v = "ERROR" THEN changed ELSE FALSE
ProcessAllHead ==
  /\ pc = "pa_head"
  /\ IF ~changed
       THEN /\ pc' = "pa_return"
            /\ UNCHANGED <<SpaceVars, queue, changed>>
     ELSE HeadVerdict(status(Heap))
  /\ Fixed
  /\ UNCHANGED <<solving, board, ctl_status, ret, pret, snap>>
  /\ UNCHANGED <<SweepVars, GuessVars, RecurVars>>

\* a rule of process_all has run: a = [H, changed]
RuleDone(a, next) ==
  /\ Store(a.H)
  /\ changed' = a.changed
  /\ pc' = next
  /\ Fixed
  /\ UNCHANGED <<solving, board, ctl_status, ret, snap>>
  /\ UNCHANGED <<SweepVars, GuessVars, RecurVars>>
\* the rules start from the grid as it is and the flag as it is
Rule == [H |-> Heap, changed |-> changed]

\* process_all: every INFER becomes an island
RuleInfer ==
  /\ pc = "pa_infer"
  /\ RuleDone(PromoteInfer(Rule, 1), "pa_reach")
  /\ pret' = pret
\* process_all: "calculate reachers, a huge function"
RuleReachers ==
  /\ pc = "pa_reach"
  /\ RuleDone(Reached(Rule), "pa_unreach")
  /\ pret' = pret
\* process_all: "spaces that can't be reached by any seed", then process()
RuleUnreachable ==
  /\ pc = "pa_unreach"
  /\ RuleDone(Unreachable(Rule, 1), "process")
  /\ pret' = "pa_puddle"
\* process_all: "spaces that would complete puddles"
RuleAntipuddle ==
  /\ pc = "pa_puddle"
  /\ RuleDone(Antipuddled(Rule), "pa_pairs")
  /\ pret' = pret
\* process_all: "things that must be islands because of the good pairs"
RuleGoodPairs ==
  /\ pc = "pa_pairs"
  /\ RuleDone(GoodPaired(Rule), "pa_forks")
  /\ pret' = pret
\* process_all: the forks, then process() and back to the head of the loop
RuleForks ==
  /\ pc = "pa_forks"
  /\ RuleDone(Forks(Rule, 1), "process")
  /\ pret' = "pa_head"

\* process_all returns to its caller
ProcessAllReturn ==
  /\ pc = "pa_return"
  /\ pc' = ret
  /\ Fixed
  /\ UNCHANGED <<SpaceVars, solving, board, queue, ctl_status, snap>>
  /\ UNCHANGED <<SweepVars, GuessVars, RecurVars, CallVars>>

\* solve: the head of a depth-one sweep, "while changed_count > 0"
SweepQueue(g) ==
  /\ Store(g.H)
  /\ guess_queue' = g.queue
SweepStart ==
  /\ pc = "sweep"
  /\ SweepQueue(GuessOrder(Heap))
  /\ gi' = 1
  /\ changed_count' = 0
  /\ pc' = "guess"
  /\ Fixed
  /\ UNCHANGED <<solving, board, ctl_status, snap>>
  /\ UNCHANGED <<GuessVars, RecurVars, CallVars>>

\* the sweep run again whether or not a guess was conclusive
SweepEndAgain ==
  /\ pc = "guess"
  /\ gi > Len(guess_queue)
  /\ pc' = "sweep"
  /\ Fixed
  /\ UNCHANGED <<SpaceVars, solving, board, queue, ctl_status, snap>>
  /\ UNCHANGED <<SweepVars, GuessVars, RecurVars, CallVars>>

\* the sweep has gone through its queue: another sweep if a guess was
\* conclusive, else on to the recursive guessing
SweepEnd ==
  /\ pc = "guess"
  /\ gi > Len(guess_queue)
  /\ pc' = IF changed_count > 0 THEN "sweep" ELSE "recur"
  /\ Fixed
  /\ UNCHANGED <<SpaceVars, solving, board, queue, ctl_status, snap>>
  /\ UNCHANGED <<SweepVars, GuessVars, RecurVars, CallVars>>

\* one guess: reset_game(save), alter(guessing, colour)
Guessed(H, old, c, colour) == alter(reset_game(H, old, 1), c, colour, 0)

\* guess_single up to the process_all of its first try: DEADEND when no
\* longer solving, SKIPPED when the space is not blank
GuessTry1 ==
  /\ pc = "guess"
  /\ gi <= Len(guess_queue)
  /\ IF ~solving
       THEN /\ pc' = "deadend"
            /\ UNCHANGED <<SpaceVars, queue, gi, GuessVars, CallVars>>
     ELSE IF cell_state[guess_queue[gi]] # BLANK
       THEN /\ pc' = "guess"
            /\ gi' = gi + 1
            /\ UNCHANGED <<SpaceVars, queue, GuessVars, CallVars>>
     ELSE /\ save' = save_game(Heap)
          /\ by_poe' = 0
          /\ Store(Guessed(Heap, save_game(Heap), guess_queue[gi], try1))
          /\ CallProcessAll("g_status1")
          /\ UNCHANGED <<gi, other>>
  /\ Fixed
  /\ UNCHANGED <<solving, board, ctl_status, guess_queue, changed_count, snap>>
  /\ UNCHANGED RecurVars

\* guess_single: the status of the first try
GuessVerdict1(v) ==
  /\ Store(v.H)
  /\ IF v.v = "SOLVED"
       THEN \* VICTORY: changed_count = 0 and break
            /\ changed_count' = 0
            /\ pc' = "recur"
            /\ UNCHANGED <<by_poe, other>>
     ELSE IF v.v = "ERROR"
       THEN /\ by_poe' = try2
            /\ pc' = "g_try2"
            /\ UNCHANGED <<changed_count, other>>
     ELSE /\ other' = save_game(v.H)
          /\ pc' = "g_try2"
          /\ UNCHANGED <<changed_count, by_poe>>
GuessStatus1 ==
  /\ pc = "g_status1"
  /\ GuessVerdict1(status(Heap))
  /\ Fixed
  /\ UNCHANGED <<solving, board, ctl_status, guess_queue, gi, save, snap>>
  /\ UNCHANGED <<RecurVars, CallVars>>

\* guess_single: the second try
GuessTry2 ==
  /\ pc = "g_try2"
  /\ Store(Guessed(Heap, save, guess_queue[gi], try2))
  /\ CallProcessAll("g_status2")
  /\ Fixed
  /\ UNCHANGED <<solving, board, ctl_status, snap>>
  /\ UNCHANGED <<SweepVars, GuessVars, RecurVars>>

\* guess_single: the status of the second try, crossed with the first
GuessVerdict2(v) ==
  /\ Store(v.H)
  /\ IF v.v = "SOLVED"
       THEN /\ changed_count' = 0
            /\ pc' = "recur"
            /\ gi' = gi
     ELSE IF v.v = "ERROR"
       THEN /\ pc' = IF by_poe # 0 THEN "g_deadend" ELSE "g_conclusive"
            /\ UNCHANGED <<changed_count, gi>>
     ELSE IF by_poe # 0
       THEN \* CONCLUSIVE: the second try stays
            /\ changed_count' = changed_count + 1
            /\ gi' = gi + 1
            /\ pc' = "guess"
     ELSE /\ pc' = "g_inconclusive"
          /\ UNCHANGED <<changed_count, gi>>
GuessStatus2 ==
  /\ pc = "g_status2"
  /\ GuessVerdict2(status(Heap))
  /\ Fixed
  /\ UNCHANGED <<solving, board, ctl_status, guess_queue, snap>>
  /\ UNCHANGED <<GuessVars, RecurVars, CallVars>>

\* guess_single: the reset_game before it returns DEADEND (both tries
\* wrong), CONCLUSIVE (the first try stays) or INCONCLUSIVE
GuessReset ==
  /\ pc \in {"g_deadend", "g_conclusive", "g_inconclusive"}
  /\ Store(reset_game(Heap, IF pc = "g_conclusive" THEN other ELSE save, 1))
  /\ pc' = IF pc = "g_deadend" THEN "deadend" ELSE "guess"
  /\ gi' = IF pc = "g_deadend" THEN gi ELSE gi + 1
  /\ changed_count' = IF pc = "g_conclusive" THEN changed_count + 1
                      ELSE changed_count
  /\ Fixed
  /\ UNCHANGED <<solving, board, ctl_status, guess_queue, snap>>
  /\ UNCHANGED <<GuessVars, RecurVars, CallVars>>

\* solve: the last lines, also reached on DEADEND.  The verdict is handed to
\* the controller; stopSolveGame(self.solving) is then called with one
\* argument too many, which raises TypeError and ends the solver thread with
\* Grid.solving as it was.
FinalVerdict(v) ==
  /\ Store(v.H)
  /\ ctl_status' = v.v
Finish ==
  /\ pc \in {"deadend", "final"}
  /\ FinalVerdict(status(Heap))
  /\ pc' = "done"
  /\ Fixed
  /\ UNCHANGED <<solving, board, snap>>
  /\ UNCHANGED <<SweepVars, GuessVars, RecurVars, CallVars>>

\* solve: "generate the guess tree"
RecurQueue(g) ==
  /\ Store(g.H)
  /\ final_queue' = g.queue
  /\ pc' = IF g.queue # <<>> THEN "r_enter" ELSE "final"
RecurStart ==
  /\ pc = "recur"
  /\ RecurQueue(GuessOrder(Heap))
  /\ index' = 1
  /\ stack' = <<>>
  /\ Fixed
  /\ UNCHANGED <<solving, board, ctl_status, snap>>
  /\ UNCHANGED <<SweepVars, GuessVars, CallVars>>

\* "find the next blank in the queue" from position i (counted from 1):
\* the position of the blank, 0 when the loop returns False, and -1 when
\* guess_queue[index] is read beyond the end of the queue (IndexError)
RECURSIVE NextBlank(_, _, _)
NextBlank(st, gq, i) ==
  IF i > Len(gq) THEN -1
  ELSE IF st[gq[i]] = BLANK THEN i
  ELSE IF i + 1 > Len(gq) THEN 0
  ELSE NextBlank(st, gq, i + 1)

\* guess_recur(guess_queue, index) up to the process_all of its first try;
\* at is the place of the next blank
RecurFirst(at) ==
  IF at = -1
    THEN /\ pc' = "crashed"
         /\ UNCHANGED <<SpaceVars, queue, index, stack, CallVars>>
  ELSE IF at = 0
    THEN /\ pc' = "r_false"
         /\ UNCHANGED <<SpaceVars, queue, index, stack, CallVars>>
  ELSE /\ Store(Guessed(Heap, save_game(Heap), final_queue[at], try1))
       /\ stack' = Append(stack, [index |-> at, save |-> save_game(Heap),
                                  tried |-> 1])
       /\ index' = at
       /\ CallProcessAll("r_status1")
RecurEnter ==
  /\ pc = "r_enter"
  /\ RecurFirst(IF solving THEN NextBlank(cell_state, final_queue, index)
                ELSE 0)
  /\ final_queue' = final_queue
  /\ Fixed
  /\ UNCHANGED <<solving, board, ctl_status, snap>>
  /\ UNCHANGED <<SweepVars, GuessVars>>

\* guess_recur: the status of a try; on OKAY "go deeper"
RecurVerdict(v) ==
  /\ Store(v.H)
  /\ IF v.v = "SOLVED"
       THEN \* True all the way up
            /\ pc' = "final"
            /\ UNCHANGED <<index, stack>>
     ELSE IF v.v = "OKAY"
       THEN /\ index' = stack[Len(stack)].index + 1
            /\ stack' = [stack EXCEPT ![Len(stack)].tried =
                           IF pc = "r_status1" THEN 1 ELSE 2]
            /\ pc' = "r_enter"
     ELSE IF pc = "r_status1"
       THEN /\ pc' = "r_try2"
            /\ UNCHANGED <<index, stack>>
     ELSE \* return False
          /\ pc' = "r_false"
          /\ stack' = SubSeq(stack, 1, Len(stack) - 1)
          /\ index' = index
RecurStatus ==
  /\ pc \in {"r_status1", "r_status2"}
  /\ RecurVerdict(status(Heap))
  /\ final_queue' = final_queue
  /\ Fixed
  /\ UNCHANGED <<solving, board, ctl_status, snap>>
  /\ UNCHANGED <<SweepVars, GuessVars, CallVars>>

\* guess_recur: a call has returned False to the frame on top of the stack
RecurReturn ==
  /\ pc = "r_false"
  /\ IF stack = <<>>
       THEN /\ pc' = "final"
            /\ stack' = stack
     ELSE IF stack[Len(stack)].tried = 1
       THEN /\ pc' = "r_try2"
            /\ stack' = stack
     ELSE \* the call was the frame's result
          /\ pc' = "r_false"
          /\ stack' = SubSeq(stack, 1, Len(stack) - 1)
  /\ Fixed
  /\ UNCHANGED <<SpaceVars, solving, board, queue, ctl_status, final_queue,
                 index, snap>>
  /\ UNCHANGED <<SweepVars, GuessVars, CallVars>>

\* guess_recur: "it knows for sure that try1 was wrong"
RecurSecond(top) ==
  IF ~solving
    THEN /\ pc' = "r_false"
         /\ stack' = SubSeq(stack, 1, Len(stack) - 1)
         /\ UNCHANGED <<SpaceVars, queue, CallVars>>
  ELSE /\ Store(Guessed(Heap, top.save, final_queue[top.index], try2))
       /\ CallProcessAll("r_status2")
       /\ stack' = stack
RecurTry2 ==
  /\ pc = "r_try2"
  /\ RecurSecond(stack[Len(stack)])
  /\ Fixed
  /\ UNCHANGED <<solving, board, ctl_status, final_queue, index, snap>>
  /\ UNCHANGED <<SweepVars, GuessVars>>

\* ------------------------------------------------------------ the controller
\* Game.setState
setState(b, c, s) == IF b[c] <= BLANK /\ b[c] # s THEN [b EXCEPT ![c] = s] ELSE b
\* NrkbController.drawQueue: changeGame(coords, state, True) for every change,
\* in the order of the queue: the changes lo..hi are those of the first half
\* and then those of the second
RECURSIVE Drawn(_, _, _, _)
Drawn(b, changes, lo, hi) ==
  IF Past(b, lo, hi) THEN b
  ELSE IF lo = hi THEN setState(b, changes[lo][1], changes[lo][2])
  ELSE Drawn(Drawn(b, changes, lo, (lo + hi) \div 2), changes,
             (lo + hi) \div 2 + 1, hi)
\* the timer: updateStatus, which draws the queue
DrawQueue ==
  /\ ~InProcess
  /\ queue # <<>>
  /\ board' = Drawn(board, queue, 1, Len(queue))
  /\ queue' = <<>>
  /\ Fixed
  /\ UNCHANGED <<SpaceVars, solving, ctl_status, pc, snap>>
  /\ UNCHANGED <<SweepVars, GuessVars, RecurVars, CallVars>>

\* NrkbController.stopSolveGame: the flag is cleared, the queue is drawn and
\* the board is resynchronised with the grid
StopSolveGame ==
  /\ ~InProcess
  /\ pc # "idle"
  /\ solving
  /\ solving' = FALSE
  /\ queue' = <<>>
  /\ board' = cell_state
  /\ Fixed
  /\ UNCHANGED <<SpaceVars, ctl_status, pc, snap>>
  /\ UNCHANGED <<SweepVars, GuessVars, RecurVars, CallVars>>

Next ==
  \/ StartSolveGame
  \/ Wipe
  \/ Seed
  \/ Process
  \/ ProcessAll
  \/ ProcessAllHead
  \/ RuleInfer
  \/ RuleReachers
  \/ RuleUnreachable
  \/ RuleAntipuddle
  \/ RuleGoodPairs
  \/ RuleForks
  \/ ProcessAllReturn
  \/ SweepStart
  \/ SweepEnd
  \/ GuessTry1
  \/ GuessStatus1
  \/ GuessTry2
  \/ GuessStatus2
  \/ GuessReset
  \/ RecurStart
  \/ RecurEnter
  \/ RecurStatus
  \/ RecurReturn
  \/ RecurTry2
  \/ Finish
  \/ DrawQueue
  \/ StopSolveGame

Spec == Init /\ [][Next]_vars

\* no execution of Grid.solve is under way: none was started, or the last
\* one has returned
Returned == pc \in {"idle", "done", "crashed"}
\* the steps of the solver thread, from the first line of solve to its return
Solve ==
  \/ Wipe
  \/ Seed
  \/ Process
  \/ ProcessAll
  \/ ProcessAllHead
  \/ RuleInfer
  \/ RuleReachers
  \/ RuleUnreachable
  \/ RuleAntipuddle
  \/ RuleGoodPairs
  \/ RuleForks
  \/ ProcessAllReturn
  \/ SweepStart
  \/ SweepEnd
  \/ GuessTry1
  \/ GuessStatus1
  \/ GuessTry2
  \/ GuessStatus2
  \/ GuessReset
  \/ RecurStart
  \/ RecurEnter
  \/ RecurStatus
  \/ RecurReturn
  \/ RecurTry2
  \/ Finish

\* threading.Thread(target = self.grid.solve).start(): a thread that is
\* started is run, so the solver takes its next step as long as it has one.
\* Every position of solve before its return has a next step, so that
\* ENABLED <<Solve>>_vars is ~Returned, and WF_vars(Solve) reads
Running == ~Returned
SpecSolve == Init /\ [][Next]_vars /\ ([]<>~Running \/ []<><<Solve>>_vars)

\* -------------------------------------------------- a game played by hand
\* the boards that are filled in by hand have at most MaxFill cells
InitGrid == Init /\ rows * cols <= MaxFill

\* NrkbController.locked
locked == ctl_status = "SOLVED" \/ solving

\* Grid.copy_game
RECURSIVE copy_game(_, _, _)
copy_game(H, b, c) ==
  IF Past(H, c, rows * cols) THEN H
  ELSE copy_game(forget_reachers(forget_group([H EXCEPT !.st[c] = b[c]], c), c),
                 b, c + 1)

\* NrkbBoard.OnLeftDown, OnRightDown and OnMouseMove: the cursor is WATER,
\* ISLAND or BLANK, and NrkbController.changeGame sets the state of the square
ChangeGame ==
  /\ pc = "idle"
  /\ ~locked
  /\ \E c \in Cells, s \in {BLANK, ISLAND, WATER} :
       /\ setState(board, c, s) # board
       /\ board' = setState(board, c, s)
  /\ Fixed
  /\ UNCHANGED <<SpaceVars, solving, queue, ctl_status, pc, snap>>
  /\ UNCHANGED <<SweepVars, GuessVars, RecurVars, CallVars>>

\* NrkbController.checkGame: the grid takes the board and is checked
Verdict(v, at) ==
  /\ Store(v.H)
  /\ ctl_status' = v.v
  /\ pc' = at
  /\ Fixed
  /\ UNCHANGED <<solving, board, snap>>
  /\ UNCHANGED <<SweepVars, GuessVars, RecurVars, CallVars>>
CheckGame ==
  /\ pc = "idle"
  /\ ~locked
  /\ Verdict(check(copy_game(Heap, board, 1)), "checked")

\* Grid.status of the grid that has taken the board
GridStatus ==
  /\ pc = "idle"
  /\ ~locked
  /\ Verdict(status(copy_game(Heap, board, 1)), "status")

NextGrid ==
  \/ ChangeGame
  \/ CheckGame
  \/ GridStatus

SpecGrid == InitGrid /\ [][NextGrid]_vars

\* ------------------------------------- process_all run again where it returned
\* process_all() is called once more where a call of it has returned, with
\* the grid as it was left remembered in snap
ProcessAllTwice ==
  /\ pc = "pa_return"
  /\ ret # "again"
  /\ solving
  /\ snap' = [st |-> cell_state, owner |-> owner]
  /\ CallProcessAll("again")
  /\ Fixed
  /\ UNCHANGED <<SpaceVars, solving, board, queue, ctl_status>>
  /\ UNCHANGED <<SweepVars, GuessVars, RecurVars>>

NextAgain ==
  \/ Next
  \/ ProcessAllTwice

SpecAgain == Init /\ [][NextAgain]_vars

\* ------------------------------------------- the buttons while a solver runs
MaxWaiting == 1
MaxRace == 4

\* the boards on which the buttons are pressed have at most MaxRace cells
InitThreads == Init /\ rows * cols <= MaxRace

\* the executions of Grid.solve that are started and have not returned
Active == waiting + (IF Returned THEN 0 ELSE 1)

\* NrkbController.startSolveGame after a solver thread was started: the
\* guard is locked() alone, so the thread is started whether or not the one
\* before it has returned
StartSolveAgain ==
  /\ ~InProcess
  /\ pc # "idle"
  /\ ~locked
  /\ waiting < MaxWaiting
  /\ solving' = TRUE
  /\ queue' = <<>>
  /\ waiting' = waiting + 1
  /\ UNCHANGED <<rows, cols, seeds, target, answer>>
  /\ UNCHANGED <<SpaceVars, board, ctl_status, pc, snap>>
  /\ UNCHANGED <<SweepVars, GuessVars, RecurVars, CallVars>>

\* a started thread enters Grid.solve; the model lets it run when the
\* execution before it has returned
BeginSolve ==
  /\ waiting > 0
  /\ pc \in {"done", "crashed"}
  /\ waiting' = waiting - 1
  /\ pc' = "wipe"
  /\ guess_queue' = <<>>
  /\ gi' = 0
  /\ changed_count' = 0
  /\ save' = <<>>
  /\ other' = <<>>
  /\ by_poe' = 0
  /\ final_queue' = <<>>
  /\ index' = 0
  /\ stack' = <<>>
  /\ ret' = "none"
  /\ pret' = "none"
  /\ changed' = FALSE
  /\ UNCHANGED <<rows, cols, seeds, target, answer>>
  /\ UNCHANGED <<SpaceVars, solving, board, queue, ctl_status, snap>>

\* Game.clear on the board b
clear(b) == [c \in Cells |-> IF b[c] <= 0 THEN BLANK ELSE b[c]]
\* NrkbController.clearGame: stopSolveGame, then the board is cleared and
\* copied into the grid; H is the grid after copy_game
Cleared(H) ==
  /\ cell_state' = H.st
  /\ owner' = H.owner
  /\ owns' = H.owns
  /\ reachers' = H.reachers
  /\ group' = H.group
  /\ tag' = H.tag
  /\ grouped_count' = H.gc
  /\ q' = H.q
ClearGame ==
  /\ ~InProcess
  /\ solving' = FALSE
  /\ queue' = <<>>
  /\ board' = clear(cell_state)
  /\ Cleared(copy_game(Heap, clear(cell_state), 1))
  /\ ctl_status' = "OKAY"
  /\ Fixed
  /\ UNCHANGED <<pc, snap>>
  /\ UNCHANGED <<SweepVars, GuessVars, RecurVars, CallVars>>

NextThreads ==
  \/ Next
  \/ StartSolveAgain
  \/ BeginSolve
  \/ ClearGame

SpecThreads == InitThreads /\ [][NextThreads]_vars

\* ------------------------------------------------------ two worked examples
\* the 5x5 board with the seed 1 at (2, 2)
Lone == [c \in 1..(5 * 5) |-> IF c = CellAt(5, 2, 2) THEN 1 ELSE BLANK]
\* the 4x4 grid with the seeds 2 at (0, 0) and (3, 3) and the water filled in
\* at (1, 1), (1, 2) and (2, 1)
Corners ==
  [c \in 1..(4 * 4) |->
     IF c \in {CellAt(4, 0, 0), CellAt(4, 3, 3)} THEN 2
     ELSE IF c \in {CellAt(4, 1, 1), CellAt(4, 1, 2), CellAt(4, 2, 1)}
       THEN WATER
     ELSE BLANK]
InitExamples == Start(5, 5, Lone) \/ Start(4, 4, Corners)

\* process_all() run on the grid as it stands, solving true
Propagate ==
  /\ pc = "idle"
  /\ ~locked
  /\ solving' = TRUE
  /\ CallProcessAll("propagated")
  /\ Fixed
  /\ UNCHANGED <<SpaceVars, board, queue, ctl_status, snap>>
  /\ UNCHANGED <<SweepVars, GuessVars, RecurVars>>

\* solve with solving held true, which on these grids ends without a guess
NextExamples ==
  \/ StartSolveGame
  \/ Wipe
  \/ Seed
  \/ Process
  \/ ProcessAll
  \/ ProcessAllHead
  \/ RuleInfer
  \/ RuleReachers
  \/ RuleUnreachable
  \/ RuleAntipuddle
  \/ RuleGoodPairs
  \/ RuleForks
  \/ ProcessAllReturn
  \/ SweepStart
  \/ SweepEnd
  \/ RecurStart
  \/ Finish
  \/ DrawQueue
  \/ Propagate

SpecExamples == InitExamples /\ [][NextExamples]_vars

\* ------------------------------------------- a seed with a faraway island
\* the 3x4 boards with the one seed ChainSeed, on which the sweeps guess an
\* island apart from the seed's
ChainSeed == 5
ChainBoards ==
  {[c \in 1..(3 * 4) |-> IF c = s THEN ChainSeed ELSE BLANK] : s \in 1..(3 * 4)}
\* the 7x7 board with the seed 4 at (3, 3) and an island marked at (3, 6)
Faraway ==
  [c \in 1..(7 * 7) |->
     IF c = CellAt(7, 3, 3) THEN 4
     ELSE IF c = CellAt(7, 3, 6) THEN ISLAND
     ELSE BLANK]
InitChains == (\E b \in ChainBoards : Start(3, 4, b)) \/ Start(7, 7, Faraway)
SpecChains == InitChains /\ [][Next]_vars

\* ------------------------------------------ a chained seed beside a seed
\* the 3x4 board with the seed 4 at (0, 0) and the seed ChainSeed at (2, 2):
\* the sweeps guess an island apart from the larger seed within reach of the
\* smaller one
Beside ==
  [c \in 1..(3 * 4) |->
     IF c = CellAt(4, 0, 0) THEN 4
     ELSE IF c = CellAt(4, 2, 2) THEN ChainSeed
     ELSE BLANK]
InitBeside == Init \/ Start(3, 4, Beside)
SpecBeside == InitBeside /\ [][Next]_vars

\* ------------------------------------- the squares asked for by coordinates
\* Game.getState and Game.setState take a pair (x, y); the boards are those
\* of at most MaxSquares cells, the coordinates those of Coords
MaxSquares == 2
Coords == (-MaxSquares - 1)..MaxSquares
InitSquares == Init /\ rows * cols <= MaxSquares

\* a[i] of a Python list a of n items: a negative i counts from the end, and
\* an i below -n or from n on raises IndexError
InList(i, n) == -n <= i /\ i < n
ListIndex(i, n) == IF i >= 0 THEN i ELSE i + n

\* Game.getState((x, y))
getState(b, x, y) ==
  IF y < 0 \/ y >= rows \/ x < 0 \/ x >= cols THEN BLANK
  ELSE b[CellAt(cols, x, y)]
\* Game.setState((x, y), state): [board, changed, raised] with changed the
\* value returned and raised an IndexError of self.board[y][x]
setStateAt(b, x, y, state) ==
  IF ~InList(y, rows) \/ ~InList(x, cols)
    THEN [board |-> b, changed |-> FALSE, raised |-> TRUE]
  ELSE LET c == CellAt(cols, ListIndex(x, cols), ListIndex(y, rows))
       IN [board |-> setState(b, c, state),
           changed |-> setState(b, c, state) # b,
           raised |-> FALSE]

\* a call of Game.getState
GetState ==
  /\ pc = "idle"
  /\ \E x \in Coords, y \in Coords :
       answer' = [op |-> "getState", x |-> x, y |-> y, state |-> BLANK,
                  was |-> board, value |-> getState(board, x, y),
                  changed |-> FALSE, raised |-> FALSE]
  /\ UNCHANGED <<rows, cols, seeds, target, waiting>>
  /\ UNCHANGED <<SpaceVars, solving, board, queue, ctl_status, pc, snap>>
  /\ UNCHANGED <<SweepVars, GuessVars, RecurVars, CallVars>>
\* a call of Game.setState
SetState ==
  /\ pc = "idle"
  /\ \E x \in Coords, y \in Coords, s \in {BLANK, ISLAND, WATER} :
       LET r == setStateAt(board, x, y, s)
       IN /\ board' = r.board
          /\ answer' = [op |-> "setState", x |-> x, y |-> y, state |-> s,
                        was |-> board, value |-> BLANK,
                        changed |-> r.changed, raised |-> r.raised]
  /\ UNCHANGED <<rows, cols, seeds, target, waiting>>
  /\ UNCHANGED <<SpaceVars, solving, queue, ctl_status, pc, snap>>
  /\ UNCHANGED <<SweepVars, GuessVars, RecurVars, CallVars>>

NextSquares ==
  \/ GetState
  \/ SetState

SpecSquares == InitSquares /\ [][NextSquares]_vars

\* --------------------------------------------------- the rules of Nurikabe
\* stated on sets of cells, apart from the code of find_group
Adjacent(a, b) == distance(a, b) = 1
Border(S, R) == {n \in S \ R : \E m \in R : Adjacent(n, m)}
RECURSIVE Grown(_, _)
Grown(S, R) == IF Border(S, R) = {} THEN R ELSE Grown(S, R \cup Border(S, R))
\* the cells of S that are connected to c within S
Component(S, c) == Grown(S, {c})
Components(S) == {Component(S, c) : c \in S}
Water(st) == {c \in Cells : st[c] = WATER}
Land(st) == {c \in Cells : st[c] # WATER}
Numbers(st) == {c \in Cells : st[c] > 0}
\* a 2x2 block of water
Pool(W) ==
  \E c \in W :
    /\ CellX(cols, c) < cols - 1
    /\ c + 1 \in W
    /\ c + cols \in W
    /\ c + cols + 1 \in W
\* the water W solves the board b
Solves(b, W) ==
  /\ W \cap Numbers(b) = {}
  /\ Cardinality(Components(W)) <= 1
  /\ ~Pool(W)
  /\ \A I \in Components(Cells \ W) :
       \E s \in I \cap Numbers(b) :
         /\ I \cap Numbers(b) = {s}
         /\ Cardinality(I) = b[s]
HasSolution(b) == \E W \in SUBSET (Cells \ Numbers(b)) : Solves(b, W)

\* the invalid island groups of a grid, after the table of group types:
\* a seed whose island cells hold a second seed or more cells than its number
RECURSIVE SetSum(_, _)
SetSum(st, S) ==
  IF S = {} THEN 0
  ELSE LET c == CHOOSE x \in S : TRUE IN st[c] + SetSum(st, S \ {c})
Marks(st) == {c \in Cells : is_island(st, c)}
Crowded(st) ==
  \E s \in Numbers(st) :
    \/ Cardinality(Component(Marks(st), s) \cap Numbers(st)) > 1
    \/ Cardinality(Component(Marks(st), s)) > st[s]
\* a piece of land L, blanks counted in: marks without a seed, seeds without
\* the room for a water between them, a seed with too many marks or too
\* little room
Stranded(st, L) ==
  \/ L \cap Numbers(st) = {} /\ L \cap Marks(st) # {}
  \/ /\ Cardinality(L \cap Numbers(st)) > 1
     /\ SetSum(st, L \cap Numbers(st)) + 1 > Cardinality(L)
  \/ /\ Cardinality(L \cap Numbers(st)) = 1
     /\ \/ Cardinality(L \cap Marks(st)) > SetSum(st, L \cap Numbers(st))
        \/ Cardinality(L) < SetSum(st, L \cap Numbers(st))
InvalidIsland(st) ==
  Crowded(st) \/ \E L \in Components(Land(st)) : Stranded(st, L)

\* the board the puzzle started from, while the solver has not been stopped
Puzzle ==
  [c \in Cells |-> IF \E i \in 1..Len(seeds) : seeds[i] = c THEN board[c]
                   ELSE BLANK]

\* ------------------------------------------------------------------ claims
\* C1: for every initial board that admits a valid solution, solve run with
\* solving held true ends with the grid in a state that status() calls
\* SOLVED.
C1_SolveReachesSolved ==
  pc = "done" /\ solving /\ ctl_status # "SOLVED" => ~HasSolution(Puzzle)
\* C1, on the boards that keep some water: the same, where target > 0
C1_SolveReachesSolvedWithWater ==
  pc = "done" /\ solving /\ ctl_status # "SOLVED" /\ target > 0
    => ~HasSolution(Puzzle)
\* a solve that ended unsolved on a board without water that has a solution
C1_Unsolved ==
  /\ pc = "done" /\ solving /\ ctl_status = "ERROR"
  /\ target = 0 /\ HasSolution(Puzzle)

\* C2: whenever status() or check() returns SOLVED the grid has exactly
\* target WATER cells, all in one orthogonally connected component, and no
\* 2x2 block of four WATER cells.
C2_SolvedWater ==
  pc \in {"checked", "status"} /\ ctl_status = "SOLVED"
    => /\ Cardinality(Water(cell_state)) = target
       /\ Cardinality(Components(Water(cell_state))) = 1
       /\ ~Pool(Water(cell_state))
\* check() has returned SOLVED for a grid with water around a corner
C2_Reached ==
  /\ pc = "checked" /\ ctl_status = "SOLVED"
  /\ Cardinality(Water(cell_state)) >= 3
  /\ \E c \in Water(cell_state) : c + 1 \in Water(cell_state)
  /\ \E c \in Water(cell_state) : c + cols \in Water(cell_state)

\* C3 as stated: status() returns SOLVED if and only if no invalid island
\* group exists, exactly one water component exists, and it has exactly
\* target cells.
C3_SolvedIff ==
  pc = "status"
    => (ctl_status = "SOLVED"
          <=> /\ ~InvalidIsland(board)
              /\ Cardinality(Components(Water(board))) = 1
              /\ Cardinality(Water(board)) = target)
\* C3 amended: status() returns SOLVED if and only if no invalid island group
\* exists, exactly one water component exists, it has exactly target cells,
\* and it holds no 2x2 block of water.
C3_SolvedIffNoPool ==
  pc = "status"
    => (ctl_status = "SOLVED"
          <=> /\ ~InvalidIsland(board)
              /\ Cardinality(Components(Water(board))) = 1
              /\ Cardinality(Water(board)) = target
              /\ ~Pool(Water(board)))
\* status() has refused a grid whose one water of target cells, beside sound
\* islands, holds a 2x2 block
C3_Reached ==
  /\ pc = "status" /\ ctl_status = "ERROR"
  /\ ~InvalidIsland(board)
  /\ Cardinality(Components(Water(board))) = 1
  /\ Cardinality(Water(board)) = target
  /\ Pool(Water(board))
  /\ seeds # <<>>

\* C4 as stated: in every grid for which check() or status() returns SOLVED,
\* the strict (infer = False) island group of every seed s has exactly
\* s.value cells.
C4_StrictGroups ==
  pc \in {"checked", "status"} /\ ctl_status = "SOLVED"
    => \A i \in 1..Len(seeds) :
         Len(find_group(Heap, seeds[i], FALSE, FALSE).g.spaces)
           = cell_state[seeds[i]]
\* C4 amended: in every grid for which check() or status() returns SOLVED,
\* the land around every seed s, the cells not WATER that are joined to s
\* with the blanks counted in, has exactly s.value cells and no other seed.
C4_LandGroups ==
  pc \in {"checked", "status"} /\ ctl_status = "SOLVED"
    => \A i \in 1..Len(seeds) :
         /\ Cardinality(Component(Land(cell_state), seeds[i]))
              = cell_state[seeds[i]]
         /\ Component(Land(cell_state), seeds[i]) \cap Numbers(cell_state)
              = {seeds[i]}
\* check() has returned SOLVED for a grid in which the island of a seed was
\* left unmarked
C4_Reached ==
  /\ pc = "checked" /\ ctl_status = "SOLVED"
  /\ \E i \in 1..Len(seeds) :
       /\ board[seeds[i]] >= 2
       /\ \E c \in Component(Land(board), seeds[i]) : board[c] = BLANK

\* C5: a grid whose target is 0, with one seed of value rows * cols, is
\* SOLVED for status() and check() exactly when every cell is island or
\* seed; the 1x1 grid with the seed 1 is SOLVED right after construction.
C5_NoWaterSolved ==
  target = 0 /\ Len(seeds) = 1 /\ pc \in {"checked", "status"}
    => (ctl_status = "SOLVED" <=> \A c \in Cells : is_island(board, c))
\* the 1x1 grid with the seed 1, checked right after construction
C5_Reached ==
  /\ rows = 1 /\ cols = 1 /\ board = <<1>>
  /\ pc \in {"checked", "status"} /\ ctl_status = "ERROR"

\* C6: a snapshot taken with save_game, then any alters, runs of process and
\* process_all and calls of status(), then reset_game on the snapshot: every
\* cell has the state it had in the snapshot.  The snapshot about to be
\* restored is other after a conclusive guess, the frame's save in the
\* recursive guessing, and save otherwise.
C6_Snapshot ==
  IF pc = "g_conclusive" THEN other
  ELSE IF pc = "r_try2" THEN stack[Len(stack)].save
  ELSE save
C6_RoundTrip ==
  pc \in {"g_try2", "g_deadend", "g_conclusive", "g_inconclusive", "r_try2"}
    => reset_game(Heap, C6_Snapshot, 1).st = C6_Snapshot
\* a guess is about to be undone after status() has left the mark of an
\* inferred island on a cell that was blank in the snapshot
C6_Reached ==
  /\ pc \in {"g_try2", "g_deadend", "g_inconclusive"}
  /\ \E c \in Cells : cell_state[c] = INFER /\ save[c] = BLANK
  /\ \E c \in Cells : cell_state[c] = WATER /\ save[c] = BLANK

\* C7: a second run of process_all right after process_all has returned,
\* solving true and nothing in between, changes no cell state and no owner.
C7_Idempotent ==
  pc = "again" => cell_state = snap.st /\ owner = snap.owner
\* the second run has returned with a cell in another state
C7_Changed ==
  pc = "again" /\ solving /\ cell_state # snap.st

\* C8: throughout solve no operation leaves a seed with a state other than
\* its initial number, on boards with adjacent seeds too.
C8_SeedsKept ==
  solving => \A i \in 1..Len(seeds) : cell_state[seeds[i]] = board[seeds[i]]
\* a seed has been coloured WATER
C8_SeedLost ==
  solving /\ \E i \in 1..Len(seeds) : cell_state[seeds[i]] = WATER

\* C9: during solve, after the wipe, every change of a cell's state comes
\* with a change event for that cell: no operation returns with a cell in
\* another state than it started with and no event for the cell.
C9_Announced ==
  [][solving /\ pc \notin {"idle", "wipe"}
       => \A c \in Cells :
            cell_state'[c] # cell_state[c]
              => \E i \in (Len(queue) + 1)..Len(queue') : queue'[i][1] = c]_vars

\* C10: a consumer that starts from the dumped board and applies every
\* change event in order, writes to seeds ignored, holds the grid's final
\* cell states once the solver has ended and the queue is drained.
C10_Faithful ==
  pc = "done" /\ solving /\ queue = <<>> => board = cell_state
\* the solver has ended with SOLVED, the queue is drained, and the consumer's
\* board shows a blank where the grid holds the mark of an inferred island
C10_Apart ==
  /\ pc = "done" /\ solving /\ queue = <<>> /\ ctl_status = "SOLVED"
  /\ \E c \in Cells : board[c] = BLANK /\ cell_state[c] = INFER

\* C11: alter(cell, s) on a cell that has the state s and the owner it is
\* given puts no change on the controller's queue and leaves every field of
\* every cell as it is; alter(cell, s) on a blank cell puts exactly one
\* change (cell, s) on the queue, however many neighbours the cell has.
C11_OneEvent ==
  solving /\ pc = "process"
    => \A c \in Cells, s \in {ISLAND, WATER} :
         /\ cell_state[c] = s
              => /\ alter(Heap, c, s, owner[c]).ev = <<>>
                 /\ [alter(Heap, c, s, owner[c]) EXCEPT !.q = q] = Heap
         /\ cell_state[c] = BLANK
              => alter(Heap, c, s, 0).ev = <<<<c, s>>>>
\* the seeding has coloured a cell and the same change stands twice in a row
\* on the queue, behind the dump of the board
C11_Twice ==
  /\ solving /\ pc = "process" /\ pret = "process_all"
  /\ Len(queue) > rows * cols + 1
  /\ queue[rows * cols + 1] = queue[rows * cols + 2]
  /\ cell_state[queue[rows * cols + 1][1]] = queue[rows * cols + 1][2]

\* C12: however startSolveGame, stopSolveGame and clearGame are pressed
\* while a solver thread runs, at most one execution of Grid.solve is under
\* way on the grid at any time.
C12_OneSolver == Active <= 1
\* the solver that was stopped and started again before its next poll of the
\* flag guesses on with the flag true, while the thread of the second start
\* has yet to run on the same grid
C12_TwoSolvers ==
  /\ waiting = 1 /\ solving
  /\ pc \in {"g_status1", "g_try2", "g_status2"}

\* C13: while an execution of Grid.solve has not returned, no step of the
\* controller reads or writes the cells of the grid: stopSolveGame, which
\* copies the state of every cell into the board, and clearGame, which also
\* writes every cell through copy_game, are taken only when no execution is
\* under way.
C13_GridLeftAlone == [][StopSolveGame \/ ClearGame => Active = 0]_vars
\* clearGame has wiped the grid under a solver that stands between the two
\* tries of a guess, with a snapshot that holds water the grid has lost
C13_ClearedUnderSolver ==
  /\ pc = "g_try2" /\ ~solving /\ waiting = 0 /\ ctl_status = "OKAY"
  /\ \A c \in Cells : cell_state[c] >= BLANK
  /\ \E c \in Cells : save[c] = WATER

\* C14: once the solving flag is false, process_all changes no cell: no step
\* of a process_all that runs with the flag false, its calls of process
\* included, colours a cell WATER or ISLAND.
C14_Stopped ==
  [][~solving /\ InProcess
       => \A c \in Cells :
            cell_state'[c] \in {WATER, ISLAND}
              => cell_state'[c] = cell_state[c]]_vars
\* process_all was entered with the flag false and has returned with a cell
\* coloured that was blank when the solver was stopped
C14_Coloured ==
  /\ ~solving /\ pc = "sweep" /\ queue = <<>>
  /\ \E c \in Cells : board[c] = BLANK /\ cell_state[c] \in {WATER, ISLAND}

\* C15: a solve that ends with the solving flag false, the flag having been
\* cleared while it ran, reports the verdict OKAY to the controller.
C15_CancelledOkay ==
  [][~solving /\ pc \in {"deadend", "final"} /\ pc' = "done"
       => ctl_status' = "OKAY"]_vars
\* a cancelled solve has reported ERROR for a board that has a solution and
\* keeps some water
C15_CancelledError ==
  /\ pc = "done" /\ ~solving /\ ctl_status = "ERROR"
  /\ target > 0
  /\ \A i \in 1..Len(seeds) : cell_state[seeds[i]] > 0
  /\ HasSolution([c \in Cells |-> IF cell_state[c] > 0 THEN cell_state[c]
                                  ELSE BLANK])

\* C16: check() leaves the grid unchanged: when checkGame has copied the
\* board into the grid and check() has returned, with any verdict, every
\* cell of the grid has the state the board gave it.
C16_Unchanged == pc = "checked" => cell_state = board
\* check() has returned OKAY and left the mark of an inferred island on a
\* cell that the board holds blank
C16_Marked ==
  /\ pc = "checked" /\ ctl_status = "OKAY"
  /\ \E c \in Cells : board[c] = BLANK /\ cell_state[c] = INFER

\* C17: when two or more seeds lie in one component of seeds and island
\* cells, check() returns ERROR and hands every cell of that component, the
\* seeds included, to flagGame.
C17_CrowdedFlagged ==
  pc = "checked"
    => \A s \in Numbers(board) :
         Cardinality(Component(Marks(board), s) \cap Numbers(board)) >= 2
           => /\ ctl_status = "ERROR"
              /\ Component(Marks(board), s)
                   \subseteq check(copy_game(Heap, board, 1)).flagged
\* check() has returned for a grid in which two seeds are joined by an
\* island cell between them
C17_Reached ==
  /\ pc = "checked" /\ ctl_status = "ERROR"
  /\ \E s \in Numbers(board) :
       /\ Cardinality(Component(Marks(board), s) \cap Numbers(board)) = 2
       /\ Cardinality(Component(Marks(board), s)) >= 3

\* C18 as stated: on the 5x5 board with the seed 1 at (2, 2), solve colours
\* every other cell WATER, 24 cells, and its verdict is SOLVED.
C18_LoneSolved ==
  pc = "done" /\ rows = 5
    => /\ Water(cell_state) = Cells \ {CellAt(5, 2, 2)}
       /\ Cardinality(Water(cell_state)) = 24
       /\ ctl_status = "SOLVED"
\* C18 amended: on the 5x5 board with the seed 1 at (2, 2), solve colours
\* every other cell WATER, 24 cells, and its verdict is ERROR.
C18_LoneError ==
  pc = "done" /\ rows = 5
    => /\ Water(cell_state) = Cells \ {CellAt(5, 2, 2)}
       /\ Cardinality(Water(cell_state)) = 24
       /\ ctl_status = "ERROR"
\* solve has ended on the 5x5 board, the seed is kept, and the water holds a
\* 2x2 block
C18_Pooled ==
  /\ pc = "done" /\ rows = 5
  /\ cell_state[CellAt(5, 2, 2)] = 1
  /\ Pool(Water(cell_state))

\* C19: on the 4x4 grid with the seeds 2 at (0, 0) and (3, 3) and water at
\* (1, 1), (1, 2) and (2, 1), process_all leaves (2, 2) an ISLAND.
C19_AntiPuddle ==
  pc = "propagated" /\ rows = 4 => cell_state[CellAt(4, 2, 2)] = ISLAND
\* process_all has returned on the 4x4 grid with (2, 2) coloured WATER, the
\* fourth cell of a 2x2 block of water
C19_Drowned ==
  /\ pc = "propagated" /\ rows = 4
  /\ cell_state[CellAt(4, 2, 2)] = WATER
  /\ is_puddle(cell_state, 1, 1)

\* C20 as stated: in every state of solve, every cell whose owner is set has
\* a seed, a cell of Grid.seeds, as its owner and stands in the owns list of
\* that owner.
C20_OwnedBySeed ==
  \A c \in Cells :
    owner[c] # 0
      => InSeq(owner[c], seeds) /\ InSeq(c, owns[owner[c]])
\* C20 amended: in every state of solve, every cell whose owner is set has a
\* seed as its owner or is a WATER cell that owns itself, and stands in the
\* owns list of its owner.
C20_OwnedBySeedOrSelf ==
  \A c \in Cells :
    owner[c] # 0
      => /\ \/ InSeq(owner[c], seeds)
            \/ owner[c] = c /\ cell_state[c] = WATER
         /\ InSeq(c, owns[owner[c]])
\* during solve an island cell is owned by a seed beside a water cell that
\* owns itself
C20_Reached ==
  /\ solving /\ pc = "guess"
  /\ \E c \in Cells :
       cell_state[c] = ISLAND /\ owner[c] # 0 /\ owner[c] # c
  /\ \E c \in Cells : cell_state[c] = WATER /\ owner[c] = c

C22_OwnsWithinValue ==
  \A c \in Cells : cell_state[c] > 0 => Len(owns[c]) <= cell_state[c]
\* C22 amended: in every state of solve in which the owns list of a seed is
\* longer than the value of the seed, status() answers ERROR.
C22_OverfullIsError ==
  (\E c \in Cells : cell_state[c] > 0 /\ Len(owns[c]) > cell_state[c])
    => status(Heap).v = "ERROR"
\* while solve runs on a puzzle that has a solution, a seed owns more cells
\* than its value
C22_Overfull ==
  /\ solving /\ InProcess
  /\ \E c \in Cells : cell_state[c] > 0 /\ Len(owns[c]) > cell_state[c]
  /\ \E W \in SUBSET (Cells \ Numbers(Puzzle)) :
       Cardinality(W) = target /\ Solves(Puzzle, W)

C24_Fresh ==
  \A c \in Cells :
    cell_state[c] # BLANK
      => LET a == find_group(Heap, c, FALSE, TRUE).g
             b == find_group(Heap, c, FALSE, FALSE).g
         IN /\ SeqSet(a.spaces) = SeqSet(b.spaces)
            /\ SeqSet(a.dofs) = SeqSet(b.dofs)
            /\ SeqSet(a.walls) = SeqSet(b.walls)
            /\ SeqSet(a.numbers) = SeqSet(b.numbers)
            /\ a.type = b.type
\* status() has marked a blank INFER beside a water whose remembered group
\* still lists the cell as a dof: find_group returns the group of type WATER
\* where a fresh crawl finds a CLOSED_WATER
C24_Stale ==
  /\ solving /\ pc = "pa_return"
  /\ \E c \in Cells :
       /\ cell_state[c] = WATER
       /\ group[c] # NoGroup /\ ~group[c].inferred
       /\ \E d \in SeqSet(group[c].dofs) : cell_state[d] = INFER
       /\ find_group(Heap, c, FALSE, TRUE).g.type = "WATER"
       /\ find_group(Heap, c, FALSE, FALSE).g.type = "CLOSED_WATER"

\* C25 as stated: Game.getState and Game.setState called with a coordinate
\* outside [0, cols) x [0, rows), negative or too large, do not fail and
\* leave the board as it was; getState answers BLANK and setState answers
\* that nothing changed.
C25_OutOfBounds ==
  /\ answer.op # "none"
  /\ \/ answer.x < 0 \/ answer.x >= cols
     \/ answer.y < 0 \/ answer.y >= rows
  => /\ ~answer.raised
     /\ board = answer.was
     /\ answer.op = "getState" => answer.value = BLANK
     /\ answer.op = "setState" => ~answer.changed
\* on a board with more rows than columns, Game.setState was called with
\* x = cols, a column that NrkbBoard.coordsOfPos lets through, and raised
\* IndexError
C25_Raised ==
  /\ rows > cols
  /\ answer.op = "setState" /\ answer.x = cols /\ answer.x < rows
  /\ answer.y >= 0 /\ answer.y < rows
  /\ answer.raised

\* the waters W that solve the numbers of the grid st and agree with the
\* cells it has coloured
Answers(st) ==
  {W \in {Water(st) \cup V : V \in SUBSET {c \in Cells : st[c] \in {BLANK, INFER}}} :
     /\ Cardinality(W) = Cardinality(Cells) - SetSum(st, Numbers(st))
     /\ Solves([c \in Cells |-> IF st[c] > 0 THEN st[c] ELSE BLANK], W)}
\* the grid that the propagation in progress started from: the puzzle, or
\* the snapshot of a guess with the guessed cell coloured
Before ==
  IF pc = "sweep" THEN Puzzle
  ELSE IF pc = "g_status1" THEN [save EXCEPT ![guess_queue[gi]] = try1]
  ELSE IF pc = "g_status2" THEN [save EXCEPT ![guess_queue[gi]] = try2]
  ELSE [stack[Len(stack)].save EXCEPT
          ![final_queue[stack[Len(stack)].index]] =
             IF pc = "r_status1" THEN try1 ELSE try2]
\* process_all has returned to solve, to guess_single or to guess_recur
Propagated ==
  /\ solving
  /\ \/ pc = "sweep" /\ gi = 0
     \/ pc \in {"g_status1", "g_status2", "r_status1", "r_status2"}

\* C26 as stated: when the grid a propagation started from has a valid
\* solution, every cell that process and process_all have coloured WATER or
\* ISLAND has that colour in every valid solution of that grid, and the
\* status() of the propagated grid is not ERROR.
C26_Sound ==
  Propagated
    => \A W \in Answers(Before) :
         /\ Water(cell_state) \subseteq W
         /\ \A c \in Cells : cell_state[c] = ISLAND => c \notin W
         /\ status(Heap).v # "ERROR"
\* the propagation of a puzzle that has a solution has coloured a cell an
\* island, as the solution has it, and status() calls the grid an ERROR
C26_Refused ==
  /\ Propagated /\ pc = "sweep"
  /\ \E c \in Cells : cell_state[c] = ISLAND
  /\ \E W \in Answers(Before) :
       /\ Water(cell_state) \subseteq W
       /\ \A c \in Cells : cell_state[c] = ISLAND => c \notin W
  /\ status(Heap).v = "ERROR"

\* C27: guess_single on a blank cell b, with solving true and neither try
\* SOLVED.  The first try counts as refuted (by_poe is set) exactly when its
\* status() is ERROR.  After the status() of the second try: both OKAY, the
\* call is INCONCLUSIVE and every cell is reset to its state before the call;
\* both ERROR, it is a DEADEND and the grid is reset to the snapshot; one
\* ERROR, it is CONCLUSIVE, b holds the colour of the other try and the grid
\* is what the propagation of that try left.
C27_GuessSingle ==
  [][solving /\ solving'
       => /\ pc = "g_status1" /\ pc' = "g_try2"
               => (by_poe' # 0 <=> status(Heap).v = "ERROR")
          /\ pc = "g_status2" /\ pc' \notin {"g_status2", "recur"}
               => /\ pc' = "g_inconclusive"
                       <=> by_poe = 0 /\ status(Heap).v = "OKAY"
                  /\ pc' = "g_deadend"
                       <=> by_poe # 0 /\ status(Heap).v = "ERROR"
                  /\ pc' \in {"g_conclusive", "guess"}
                       <=> (by_poe # 0 <=> status(Heap).v = "OKAY")
                  /\ pc' = "g_conclusive" => by_poe = 0
                  /\ pc' = "guess"
                       => /\ changed_count' = changed_count + 1
                          /\ cell_state' = status(Heap).H.st
                          /\ cell_state'[guess_queue[gi]] = try2
          /\ pc \in {"g_inconclusive", "g_deadend"} /\ pc' # pc
               => /\ cell_state' = save
                  /\ cell_state'[guess_queue[gi]] = BLANK
                  /\ changed_count' = changed_count
          /\ pc = "g_conclusive" /\ pc' # pc
               => /\ cell_state' = other
                  /\ cell_state'[guess_queue[gi]] = try1
                  /\ changed_count' = changed_count + 1]_vars
\* guess_single has returned CONCLUSIVE after a first try that was OKAY and
\* a second that was an ERROR: the grid is reset to what the first try left
C27_Conclusive ==
  /\ solving /\ pc = "guess" /\ gi > 1 /\ changed_count > 0
  /\ other # <<>> /\ cell_state = other
  /\ cell_state[guess_queue[gi - 1]] = try1
  /\ save[guess_queue[gi - 1]] = BLANK

\* C28: Grid.solve terminates while solving stays true: an execution of solve
\* that was started returns (or solving is cleared), process_all included;
\* a depth-one sweep that is run again starts from strictly fewer blanks than
\* the sweep before it, all of them blanks of that sweep; and guess_recur
\* never reads its queue beyond the end, its depth being at most the length
\* of the queue
C28_Terminates ==
  /\ [](pc # "crashed" /\ Len(stack) <= Len(final_queue))
  /\ [][pc = "sweep" /\ pc' = "guess" /\ gi > 0 =>
          /\ SeqSet(guess_queue') \subseteq SeqSet(guess_queue)
          /\ SeqSet(guess_queue') # SeqSet(guess_queue)]_vars
  /\ (solving /\ ~Returned) ~> (Returned \/ ~solving)
\* a second sweep has started after a conclusive guess
C28_SweptAgain ==
  /\ solving
  /\ pc = "guess"
  /\ gi = 1
  /\ changed_count = 0
  /\ other # <<>>
  /\ guess_queue # <<>>

\* the seeds that calculate_reachers chains in the grid as it stands: the
\* result of its sweep, [H, chainers]
Chained ==
  ReacherSweep([H |-> calculate_groups(Heap, 1), chainers |-> <<>>], 1)
\* the cells returned as forced islands of the seed s
MustOf(r, s) == {r.must[i][1] : i \in {j \in 1..Len(r.must) : r.must[j][2] = s}}
\* the simple paths of at most n steps that lead from the paths of front to a
\* cell of B through cells of pass
RECURSIVE Walks(_, _, _, _)
Walks(pass, B, front, n) ==
  LET done == {p \in front : p[Len(p)] \in B}
      open == front \ done
  IN IF open = {} \/ n = 0 THEN done
     ELSE done \cup
          Walks(pass, B,
                {Append(x[1], x[2]) :
                   x \in {y \in open \X (pass \cup B) :
                            /\ InSeq(y[2], neighbors(y[1][Len(y[1])]))
                            /\ ~InSeq(y[2], y[1])}},
                n - 1)
\* the cells of S that are on every path of P, none when there is no path
OnEvery(P, S) == IF P = {} THEN {} ELSE {c \in S : \A p \in P : InSeq(c, p)}
\* the cells that touch an island of another seed than s
TouchesOther(H, s) ==
  {c \in Cells : \E i \in 1..Len(neighbors(c)) :
     /\ is_island(H.st, neighbors(c)[i])
     /\ H.owner[neighbors(c)[i]] # 0
     /\ H.owner[neighbors(c)[i]] # s}
\* the cells that touch an island or a seed that s does not own
TouchesUnowned(H, s) ==
  {c \in Cells : \E i \in 1..Len(neighbors(c)) :
     /\ is_island(H.st, neighbors(c)[i])
     /\ ~InSeq(neighbors(c)[i], H.owns[s])}
Blanks(H, s) == {c \in Cells : H.st[c] = BLANK /\ ~InSeq(c, H.owns[s])}
\* the seed of e = [seed, groups] has two fragments that may be chained
TwoFragments(H, e) == Len(e.groups) = 2 /\ ChainLeft(H, e.seed, e.groups) <= 6

\* C29: for a seed with exactly two fragments and left <= 6, the forced
\* islands that calculate_reachers returns are exactly the blanks on every
\* connecting path of at most left - 1 blanks between the fragments whose
\* blanks touch no island of another seed
C29_ForcedIslands ==
  pc = "pa_reach" =>
    \A k \in 1..Len(Chained.chainers) :
      LET e == Chained.chainers[k]
          H == Chained.H
          A == SeqSet(e.groups[1].spaces)
          B == SeqSet(e.groups[2].spaces)
      IN TwoFragments(H, e) =>
           MustOf(calculate_reachers(Heap), e.seed) =
             OnEvery(Walks((Blanks(H, e.seed) \ TouchesOther(H, e.seed)) \cup A,
                           B, {<<a>> : a \in A},
                           ChainLeft(H, e.seed, e.groups)),
                     Blanks(H, e.seed))
\* C29, amended: the forced islands are exactly the blanks on every
\* connecting path of at most left steps between the fragments, through
\* blanks and cells the seed owns, none of whose cells before the last (the
\* cell of the fragment it starts from included) touches an island or a
\* seed that the seed does not own; and on the 7x7 grid with the seed 4 at
\* (3, 3) and the island at (3, 6) given to that seed, (3, 4) and (3, 5)
C29_ForcedUnowned ==
  /\ pc = "pa_reach" =>
       \A k \in 1..Len(Chained.chainers) :
         LET e == Chained.chainers[k]
             H == Chained.H
             A == SeqSet(e.groups[1].spaces)
             B == SeqSet(e.groups[2].spaces)
             pass == (Blanks(H, e.seed) \cup SeqSet(H.owns[e.seed]))
                       \ TouchesUnowned(H, e.seed)
         IN TwoFragments(H, e) =>
              MustOf(calculate_reachers(Heap), e.seed) =
                OnEvery(Walks(pass, B, {<<a>> : a \in A \cap pass},
                              ChainLeft(H, e.seed, e.groups)),
                        Blanks(H, e.seed))
  /\ pc = "idle" /\ cell_state = Faraway =>
       MustOf(calculate_reachers(
                set_owner(Heap, CellAt(7, 3, 6), CellAt(7, 3, 3))),
              CellAt(7, 3, 3))
         = {CellAt(7, 3, 4), CellAt(7, 3, 5)}
\* a seed with two fragments, an island of no seed next to a blank, and a
\* forced island returned
C29_Chained ==
  /\ pc = "pa_reach"
  /\ solving
  /\ \E c \in Cells : cell_state[c] = ISLAND /\ owner[c] = 0
  /\ \E k \in 1..Len(Chained.chainers) :
       /\ TwoFragments(Chained.H, Chained.chainers[k])
       /\ MustOf(calculate_reachers(Heap), Chained.chainers[k].seed) # {}

\* the cells within n cells of front through the cells of ok
RECURSIVE Spread(_, _, _, _)
Spread(ok, seen, front, n) ==
  IF n <= 0 \/ front = {} THEN seen
  ELSE Spread(ok, seen \cup front,
              {c \in ok \ (seen \cup front) :
                 \E i \in 1..Len(neighbors(c)) : neighbors(c)[i] \in front},
              n - 1)
\* the seeds that calculate_reachers does not chain
Plain == {s \in SeqSet(seeds) :
            \A k \in 1..Len(Chained.chainers) : Chained.chainers[k].seed # s}
\* the unowned cells within depth(s) cells of a dof of the group of s,
\* through cells that are blank or owned by s and touch no island of
\* another seed
WithinDepth(H, s) ==
  LET ok == {c \in Cells : (H.st[c] = BLANK \/ H.owner[c] = s)} \ TouchesOther(H, s)
  IN {c \in Spread(ok, {}, SeqSet(H.group[s].dofs) \cap ok,
                   H.st[s] - Len(H.group[s].spaces)) : H.owner[c] = 0}

\* the cells reaches returns for the remembered group of the seed s
CanReach(H, s) ==
  SeqSet(reaches(H, H.group[s], H.st[s] - Len(H.group[s].spaces)).can)
\* the cells that have no owner or are owned by s, whatever their state
Passable(H, s) == {c \in Cells : H.owner[c] = 0 \/ H.owner[c] = s}
Blocks ==
  {{b, b + 1, b + cols, b + cols + 1} :
     b \in {c \in Cells : CellX(cols, c) < cols - 1 /\ c + cols + 1 <= rows * cols}}
\* a blank whose other three cells in some 2x2 block are all WATER
LastOfPuddle(st, c) ==
  /\ st[c] = BLANK
  /\ \E B \in Blocks : c \in B /\ \A d \in B \ {c} : st[d] = WATER
\* the solver stands in process_all, its calls of process() included
InProcessAll ==
  \/ pc \in {"pa_head", "pa_infer", "pa_reach", "pa_unreach", "pa_puddle",
             "pa_pairs", "pa_forks"}
  \/ pc = "process" /\ pret \in {"pa_puddle", "pa_head"}
Around(R) == {n \in Cells \ R : \E m \in R : Adjacent(n, m)}
\* the lists of a group hold the cells of S, T and U, each once
Lists(g, S, T, U) ==
  /\ SeqSet(g.spaces) = S /\ Len(g.spaces) = Cardinality(S)
  /\ SeqSet(g.dofs) = T /\ Len(g.dofs) = Cardinality(T)
  /\ SeqSet(g.walls) = U /\ Len(g.walls) = Cardinality(U)
  /\ S \cap T = {} /\ S \cap U = {} /\ T \cap U = {}
\* C32 as stated: from a water, island or seed cell, a crawl of find_group
\* off infer lists as spaces the connected region of the colour of the cell,
\* as dofs the BLANK cells around the region and as walls the cells of the
\* opposite colour around it, each cell once and in one list only
C32_Regions ==
  \A c \in Cells :
    cell_state[c] = WATER \/ is_island(cell_state, c)
      => LET g == find_group(Heap, c, FALSE, FALSE).g
             R == IF cell_state[c] = WATER
                    THEN Component(Water(cell_state), c)
                  ELSE Component(Marks(cell_state), c)
         IN Lists(g, R,
                  {d \in Around(R) : cell_state[d] = BLANK},
                  {d \in Around(R) : IF cell_state[c] = WATER
                                       THEN is_island(cell_state, d)
                                     ELSE cell_state[d] = WATER})
\* C32 amended: the same with the INFER cells around the region counted
\* among the walls of a water group and among the dofs of an island group
\* (the crawl does not go through them), a start cell that is INFER being
\* listed with the island region around it
C32_RegionsInfer ==
  \A c \in Cells :
    cell_state[c] # BLANK
      => LET g == find_group(Heap, c, FALSE, FALSE).g
             R == IF cell_state[c] = WATER
                    THEN Component(Water(cell_state), c)
                  ELSE Component(Marks(cell_state) \cup {c}, c)
         IN Lists(g, R,
                  {d \in Around(R) : IF cell_state[c] = WATER
                                       THEN cell_state[d] = BLANK
                                     ELSE cell_state[d] \in {BLANK, INFER}},
                  {d \in Around(R) : IF cell_state[c] = WATER
                                       THEN cell_state[d] \notin {BLANK, WATER}
                                     ELSE cell_state[d] = WATER})
\* after check() an island lists an INFER cell among its dofs and a water an
\* INFER cell among its walls
C32_Listed ==
  /\ pc = "checked"
  /\ \E c \in Cells :
       /\ is_island(cell_state, c)
       /\ \E d \in SeqSet(find_group(Heap, c, FALSE, FALSE).g.dofs) :
            cell_state[d] = INFER
  /\ \E w \in Cells :
       /\ cell_state[w] = WATER
       /\ \E d \in SeqSet(find_group(Heap, w, FALSE, FALSE).g.walls) :
            cell_state[d] = INFER

\* the table of the island types, read from the top: n seeds of sum total
\* (value, when there is one), members the island and seed cells, size the
\* reachable size
TableType(n, infer, members, size, total) ==
  IF n = 0 /\ members = 0 THEN "LONE_BLANK"
  ELSE IF n = 0 /\ ~infer THEN "LONE_ISLAND"
  ELSE IF n = 0 THEN "INVALID_ISLAND"
  ELSE IF n >= 2 /\ ~infer THEN "INVALID_ISLAND"
  ELSE IF n >= 2 /\ total + 1 > size THEN "INVALID_ISLAND"
  ELSE IF n >= 2 THEN "INCOMPLETE"
  ELSE IF members > total THEN "INVALID_ISLAND"
  ELSE IF size = total THEN "ISLAND"
  ELSE IF size > total THEN "INCOMPLETE"
  ELSE IF infer THEN "INVALID_ISLAND"
  ELSE "INCOMPLETE"
\* the type the derivation gives the group of cell c of the grid st
DerivedType(st, c, infer) ==
  IF st[c] = WATER
    THEN LET W == Component(Water(st), c)
         IN IF \E m \in W : \E B \in Blocks :
                 m \in B /\ B \subseteq Water(st) /\ \A d \in B : m <= d
              THEN "INVALID_WATER"
            ELSE IF \A d \in Around(W) : st[d] # BLANK THEN "CLOSED_WATER"
            ELSE "WATER"
  ELSE LET R == IF infer THEN Component(Land(st), c)
                ELSE Component(Marks(st) \cup {c}, c)
           M == {d \in R : is_island(st, d) \/ (d = c /\ st[c] # BLANK)}
       IN TableType(Cardinality(R \cap Numbers(st)), infer, Cardinality(M),
                    Cardinality(R), SetSum(st, R \cap Numbers(st)))
\* C33: the type that a crawl of find_group gives a group is the type of
\* the derivation: for a water group INVALID_WATER when a member is the
\* top-left cell of a 2x2 block of water, else CLOSED_WATER without dofs,
\* else WATER; for an island group the row of the table for its seeds, the
\* mode, its island cells and its reachable size
C33_Types ==
  \A c \in Cells : \A i \in BOOLEAN :
    cell_state[c] # BLANK \/ i
      => find_group(Heap, c, i, FALSE).g.type = DerivedType(cell_state, c, i)
\* after check() a water without dofs holds a 2x2 block of water and is
\* INVALID_WATER, beside a seed whose island has more cells than its
\* number and is INVALID_ISLAND
C33_Typed ==
  /\ pc = "checked"
  /\ \E w \in Cells :
       /\ cell_state[w] = WATER
       /\ find_group(Heap, w, FALSE, FALSE).g.dofs = <<>>
       /\ find_group(Heap, w, FALSE, FALSE).g.type = "INVALID_WATER"
  /\ \E c \in Cells :
       /\ is_seed(cell_state, c)
       /\ Len(find_group(Heap, c, FALSE, FALSE).g.spaces) > cell_state[c]
       /\ find_group(Heap, c, FALSE, FALSE).g.type = "INVALID_ISLAND"

\* C34: check() and status() give the same verdict, on the grid that has
\* taken the board of the player and on the grid as the last call left it
C34_SameVerdict ==
  /\ pc = "idle"
       => check(copy_game(Heap, board, 1)).v = status(copy_game(Heap, board, 1)).v
  /\ check(Heap).v = status(Heap).v
\* status() returns ERROR at its first sweep, on a seed whose island has too
\* many cells, for a board that holds a 2x2 block of water as well
C34_EarlyReturn ==
  /\ pc = "idle"
  /\ Pool(Water(board))
  /\ \E i \in 1..Len(seeds) :
       find_group(copy_game(Heap, board, 1), seeds[i], FALSE, TRUE).g.type
         = "INVALID_ISLAND"
  /\ status(copy_game(Heap, board, 1)).v = "ERROR"

\* C35 as stated: between the operations of the solver every WATER cell is
\* its own owner
C35_WaterOwnsItself ==
  \A c \in Cells : cell_state[c] = WATER => owner[c] = c
\* reset_game has restored a WATER cell and left it without an owner, and
\* the propagation of the next guess runs on that grid
C35_Unowned ==
  /\ solving
  /\ pc \in {"pa_head", "pa_infer", "pa_reach", "pa_unreach"}
  /\ ret \in {"g_status1", "g_status2"}
  /\ \E c \in Cells :
       /\ cell_state[c] = WATER
       /\ owner[c] = 0
       /\ save[c] = WATER

\* the owners are as Space.__init__ sets them: a seed owns itself and
\* nothing else, and every other cell has no owner, owns nothing and has an
\* empty list of reachers
FreshOwners(H) ==
  \A c \in Cells :
    IF is_seed(H.st, c)
      THEN H.owner[c] = c /\ H.owns[c] = <<c>>
    ELSE H.owner[c] = 0 /\ H.owns[c] = <<>> /\ H.reachers[c] = <<>>
\* C36 as stated: wherever guess_single calls reset_game, the call leaves
\* every seed its own owner with owns = [itself] and every other cell
\* without owner, with empty owns and reachers
C36_ResetOwners ==
  pc \in {"g_try2", "g_deadend", "g_conclusive", "g_inconclusive"}
    => FreshOwners(reset_game(Heap, IF pc = "g_conclusive" THEN other ELSE save, 1))
\* after a guess that joined two seeds that do not touch, reset_game has
\* left a seed without owner and with an empty owns list
C36_SeedDisowned ==
  /\ solving
  /\ \A i, j \in 1..Len(seeds) : i # j => distance(seeds[i], seeds[j]) > 1
  /\ \E i \in 1..Len(seeds) : owner[seeds[i]] = 0 /\ owns[seeds[i]] = <<>>

\* the grid when calculate_reachers comes to the k-th seed with chainers: the
\* seeds without chainers and the chained seeds before it have been handled
ChainedBefore(k) ==
  ReachAllChained(
    [H |-> ReachPlain(Chained.H,
                      {Chained.chainers[j].seed : j \in 1..Len(Chained.chainers)}, 1),
     must |-> <<>>],
    SubSeq(Chained.chainers, 1, k - 1), 1)
\* the cells that the reach computation of the k-th chained seed includes:
\* what its group reaches when the chaining is given up or finds no chain,
\* else the chains and what the group of each chain reaches
ChainedReach(k) ==
  LET a == ChainedBefore(k)
      seed == Chained.chainers[k].seed
      groups == Chained.chainers[k].groups
  IN IF Len(groups) > 2 \/ ChainLeft(a.H, seed, groups) > 6
       THEN CanReach(a.H, seed)
     ELSE LET chains == ChainsBetween(SetStates(a.H, a.H.owns[seed], INFER, 1).st,
                                      groups[1].spaces, groups[2].spaces,
                                      ChainLeft(a.H, seed, groups), 1, 1)
              t == TryChains([H |-> [SetStates(a.H, a.H.owns[seed], ISLAND, 1)
                                       EXCEPT !.st[seed] = a.H.st[seed]],
                              can_reaches |-> <<>>],
                             seed, chains, 1)
          IN IF chains = <<>> THEN CanReach(t.H, seed)
             ELSE SeqsUnion(chains) \cup SeqsUnion(t.can_reaches)
\* the cells that the reach computation of the seed s includes
Included(s) ==
  IF s \in Plain THEN CanReach(Chained.H, s)
  ELSE ChainedReach(CHOOSE k \in 1..Len(Chained.chainers) :
                      Chained.chainers[k].seed = s)
\* how often e stands in the list s
Times(s, e) == Cardinality({i \in 1..Len(s) : s[i] = e})

\* C37 as stated: when calculate_reachers returns, the reacher list of every
\* blank cell without owner holds every seed whose reach computation
\* included the cell, and holds it once
C37_EveryReacherOnce ==
  pc = "pa_reach" =>
    \A c \in Cells :
      calculate_reachers(Heap).H.owner[c] = 0
      /\ calculate_reachers(Heap).H.st[c] = BLANK
      => \A s \in SeqSet(seeds) :
           c \in Included(s) => Times(calculate_reachers(Heap).H.reachers[c], s) = 1
\* calculate_reachers has returned in solve and left a blank cell without
\* owner whose reacher list holds the same seed twice
C37_ReacherTwice ==
  /\ solving
  /\ pc = "pa_unreach"
  /\ \E c \in Cells : \E s \in SeqSet(seeds) :
       /\ cell_state[c] = BLANK
       /\ owner[c] = 0
       /\ Times(reachers[c], s) > 1
\* calculate_reachers has returned in solve and a blank cell without owner
\* that a seed without chainers reaches is not in the reacher list of that
\* seed, while the cell lies on a chain of another seed
C37_ReacherRemoved ==
  /\ solving
  /\ pc = "pa_unreach"
  /\ \E c \in Cells : \E s \in SeqSet(seeds) :
       /\ cell_state[c] = BLANK
       /\ owner[c] = 0
       /\ group[s] # NoGroup
       /\ c \in CanReach(Heap, s)
       /\ ~InSeq(s, reachers[c])
       /\ \E o \in SeqSet(seeds) \ {s} : InSeq(o, reachers[c])

\* the cells of an island group of the seed value still to be found; 1 for
\* a lone island
LeftOf(H, g) ==
  IF g.type = "LONE_ISLAND" THEN 1 ELSE H.st[g.numbers[1]] - Len(g.spaces)
\* no rule of process() is applicable at the cell c
Settled(H, c) ==
  LET g == find_group(H, c, FALSE, FALSE).g
  IN IF H.st[c] = WATER
       THEN ~(Len(g.dofs) = 1 /\ Len(g.spaces) < target)
     ELSE IF is_island(H.st, c)
       THEN /\ LeftOf(H, g) = 0 => \A d \in SeqSet(g.dofs) : H.st[d] # BLANK
            /\ (g.type = "LONE_ISLAND" \/ LeftOf(H, g) > 0) => Len(g.dofs) # 1
     ELSE H.st[c] = BLANK => Cardinality(Shores(H, c)) < 2

SettledGroup(H, c) ==
  LET g == find_group(H, c, FALSE, FALSE).g
  IN IF H.st[c] = WATER
       THEN ~(Len(g.dofs) = 1 /\ Len(g.spaces) < target)
     ELSE is_island(H.st, c) =>
            /\ Len(g.numbers) = 1 /\ LeftOf(H, g) = 0
                 => \A d \in SeqSet(g.dofs) : H.st[d] # BLANK
            /\ (g.type = "LONE_ISLAND" \/ LeftOf(H, g) > 0) => Len(g.dofs) # 1
NoTags(H) == \A c \in Cells : ~H.tag[c]
\* C39: no cell has its tag set between the steps of the solver, and where
\* process_all is about to call calculate_reachers, find_group from any cell,
\* in either mode and remembering or not, and the reach search of the group
\* of any seed return with no tag set
C39_TagsWiped ==
  /\ NoTags(Heap)
  /\ pc = "pa_reach" =>
       /\ \A c \in Cells : \A i, r \in BOOLEAN :
            NoTags(find_group(Heap, c, i, r).H)
       /\ \A s \in SeqSet(seeds) :
            NoTags(reaches(Chained.H, Chained.H.group[s],
                           cell_state[s] - Len(Chained.H.group[s].spaces)).H)
\* calculate_reachers has returned in solve: the groups were found anew and
\* the reach search of a seed went over blank cells and returned some
C39_Searched ==
  /\ solving
  /\ pc = "pa_unreach"
  /\ NoTags(Heap)
  /\ \E s \in SeqSet(seeds) :
       /\ group[s] # NoGroup
       /\ reaches(Heap, group[s], cell_state[s] - Len(group[s].spaces)).can # <<>>
       /\ \E c \in Cells : InSeq(s, reachers[c])

====
